---------------------------- MODULE Spec2Model ----------------------------
(***************************************************************************)
(* gradleInit: template-variable resolution and compilation pipeline.      *)
(*                                                                         *)
(* Two state machines over one set of variables:                           *)
(*   Spec       ContextBuilder.build_context over its four sources (CLI    *)
(*              namespace, environment, persisted config, template         *)
(*              metadata), with _parse_env_value as the typed coercion;    *)
(*   SpecCache  TemplateMetadata.get_compiled_content over a source file   *)
(*              and its compiled cache entry.                              *)
(*                                                                         *)
(* Python str values are tuples of one-character strings, so that lower(), *)
(* split(), strip(), join() and int() are computed character by character. *)
(***************************************************************************)
EXTENDS Integers, Sequences, FiniteSets, TLC

(***************************************************************************)
(* Bounds of the model.                                                    *)
(***************************************************************************)
\* how many entries (config entries, environment variables, flags passed,
\* --config pairs, declared variables) one run supplies in total
MaxSupplied == 4
\* how many --config KEY=VALUE arguments one command line carries
MaxPairs == 2

(***************************************************************************)
(* Python str primitives.                                                  *)
(***************************************************************************)
UpperCase ==
  <<"A","B","C","D","E","F","G","H","I","J","K","L","M",
    "N","O","P","Q","R","S","T","U","V","W","X","Y","Z">>

LowerCase ==
  <<"a","b","c","d","e","f","g","h","i","j","k","l","m",
    "n","o","p","q","r","s","t","u","v","w","x","y","z">>

Digits == <<"0","1","2","3","4","5","6","7","8","9">>

Whitespace == {" ", "\t", "\n", "\r"}

Range(s) == {s[i] : i \in DOMAIN s}

IsDigit(c) == c \in Range(Digits)

DigitValue(c) == (CHOOSE i \in DOMAIN Digits : Digits[i] = c) - 1

\* str.lower() on one character
LowerChar(c) ==
  IF c \in Range(UpperCase)
    THEN LowerCase[CHOOSE i \in DOMAIN UpperCase : UpperCase[i] = c]
    ELSE c

\* str.lower()
Lower(s) == [i \in DOMAIN s |-> LowerChar(s[i])]

\* c in s
Contains(s, c) == \E i \in DOMAIN s : s[i] = c

\* s.startswith(p)
StartsWith(s, p) == Len(s) >= Len(p) /\ SubSeq(s, 1, Len(p)) = p

\* s[n:]
DropFirst(s, n) == SubSeq(s, n + 1, Len(s))

\* str.strip()
Strip(s) ==
  LET keep == {i \in DOMAIN s : s[i] \notin Whitespace}
  IN  IF keep = {} THEN <<>>
      ELSE LET lo == CHOOSE i \in keep : \A j \in keep : i <= j
               hi == CHOOSE i \in keep : \A j \in keep : j <= i
           IN  SubSeq(s, lo, hi)

\* index of the first occurrence of c in s, 0 when there is none
IndexOf(s, c) ==
  IF Contains(s, c)
    THEN CHOOSE i \in DOMAIN s : s[i] = c /\ \A j \in 1..(i - 1) : s[j] # c
    ELSE 0

\* s.split(c): the parts between every occurrence of c
RECURSIVE Split(_, _)
Split(s, c) ==
  IF ~Contains(s, c) THEN <<s>>
  ELSE LET i == IndexOf(s, c)
       IN  <<SubSeq(s, 1, i - 1)>> \o Split(DropFirst(s, i), c)

\* s.split(c, 1): cut at the first occurrence of c only
SplitOnce(s, c) ==
  IF ~Contains(s, c) THEN <<s>>
  ELSE LET i == IndexOf(s, c)
       IN  <<SubSeq(s, 1, i - 1), DropFirst(s, i)>>

\* c.join(parts)
RECURSIVE Join(_, _)
Join(parts, c) ==
  IF Len(parts) = 0 THEN <<>>
  ELSE IF Len(parts) = 1 THEN parts[1]
  ELSE parts[1] \o <<c>> \o Join(Tail(parts), c)

\* int(s) succeeds: optional surrounding whitespace, optional sign, decimal
\* digits with single underscores allowed between digits
IntBody(s) ==
  LET t == Strip(s)
  IN  IF Len(t) > 0 /\ t[1] \in {"+", "-"} THEN Tail(t) ELSE t

IsPyInt(s) ==
  LET b == IntBody(s)
  IN  /\ Len(b) > 0
      /\ IsDigit(b[1])
      /\ IsDigit(b[Len(b)])
      /\ \A i \in DOMAIN b : IsDigit(b[i]) \/ b[i] = "_"
      /\ \A i \in 1..(Len(b) - 1) : ~(b[i] = "_" /\ b[i + 1] = "_")

RECURSIVE DigitsValue(_, _)
DigitsValue(b, acc) ==
  IF Len(b) = 0 THEN acc
  ELSE IF b[1] = "_" THEN DigitsValue(Tail(b), acc)
  ELSE DigitsValue(Tail(b), 10 * acc + DigitValue(b[1]))

\* int(s), for s with IsPyInt(s)
PyInt(s) ==
  LET t == Strip(s)
      v == DigitsValue(IntBody(s), 0)
  IN  IF Len(t) > 0 /\ t[1] = "-" THEN 0 - v ELSE v

(***************************************************************************)
(* Context values: str, bool, int, list of str, None.                      *)
(***************************************************************************)
StrV(s)  == [t |-> "str",  s |-> s,    b |-> FALSE, n |-> 0, l |-> <<>>]
BoolV(b) == [t |-> "bool", s |-> <<>>, b |-> b,     n |-> 0, l |-> <<>>]
IntV(n)  == [t |-> "int",  s |-> <<>>, b |-> FALSE, n |-> n, l |-> <<>>]
ListV(l) == [t |-> "list", s |-> <<>>, b |-> FALSE, n |-> 0, l |-> l]
NoneV    == [t |-> "none", s |-> <<>>, b |-> FALSE, n |-> 0, l |-> <<>>]

STR_TRUE  == <<"t","r","u","e">>
STR_YES   == <<"y","e","s">>
STR_ONE   == <<"1">>
STR_FALSE == <<"f","a","l","s","e">>
STR_NO    == <<"n","o">>
STR_ZERO  == <<"0">>

\* the mutant of _parse_env_value that tries int() before the boolean words
ParseEnvValueIntFirst(value) ==
  IF IsPyInt(value) THEN IntV(PyInt(value))
  ELSE IF Lower(value) \in {STR_TRUE, STR_YES, STR_ONE} THEN BoolV(TRUE)
  ELSE IF Lower(value) \in {STR_FALSE, STR_NO, STR_ZERO} THEN BoolV(FALSE)
  ELSE IF Contains(value, ",")
    THEN ListV([i \in DOMAIN Split(value, ",") |-> Strip(Split(value, ",")[i])])
  ELSE StrV(value)

\* ContextBuilder._parse_env_value
ParseEnvValue(value) ==
  IF Lower(value) \in {STR_TRUE, STR_YES, STR_ONE} THEN BoolV(TRUE)
  ELSE IF Lower(value) \in {STR_FALSE, STR_NO, STR_ZERO} THEN BoolV(FALSE)
  ELSE IF IsPyInt(value) THEN IntV(PyInt(value))
  ELSE IF Contains(value, ",")
    THEN ListV([i \in DOMAIN Split(value, ",") |-> Strip(Split(value, ",")[i])])
  ELSE StrV(value)


(***************************************************************************)
(* Python dict primitives (a dict is a function on its keys).              *)
(***************************************************************************)
EmptyDict == <<>>

\* a.update(b)
Update(a, b) ==
  [k \in (DOMAIN a) \cup (DOMAIN b) |-> IF k \in DOMAIN b THEN b[k] ELSE a[k]]

\* d[k] = v
Put(d, k, v) ==
  [x \in (DOMAIN d) \cup {k} |-> IF x = k THEN v ELSE d[x]]

(***************************************************************************)
(* Names.                                                                  *)
(***************************************************************************)
KEY_GROUP     == <<"g","r","o","u","p">>
KEY_DEBUG     == <<"d","e","b","u","g">>
KEY_PORT      == <<"p","o","r","t">>
KEY_A_B       == <<"a","_","b">>
KEY_TIMESTAMP == <<"t","i","m","e","s","t","a","m","p">>
KEY_YEAR      == <<"y","e","a","r">>
KEY_DATE      == <<"d","a","t","e">>
KEY_HELP      == <<"h","e","l","p">>
KEY_FUNC      == <<"f","u","n","c">>
KEY_COMMAND   == <<"c","o","m","m","a","n","d">>
KEY_CONFIG    == <<"c","o","n","f","i","g">>
KEY_DRY_RUN   == <<"d","r","y","_","r","u","n">>
NAME_A_B      == <<"a","-","b">>

\* 'GRADLE_INIT_'
ENV_PREFIX == <<"G","R","A","D","L","E","_","I","N","I","T","_">>

\* the keys build_context never copies from the CLI namespace
ReservedKeys == {KEY_HELP, KEY_FUNC, KEY_COMMAND, KEY_CONFIG}

\* the keys build_context computes
ComputedKeys == {KEY_TIMESTAMP, KEY_YEAR, KEY_DATE}

(***************************************************************************)
(* State.                                                                  *)
(***************************************************************************)
VARIABLES
  config,       \* persisted config: section name -> dict (sections may be absent)
  env_vars,     \* process environment: variable name -> str
  hint_vars,    \* variables of the inline hints: name -> default (None or str)
  md_args,      \* the 'arguments' list of TEMPLATE.md: <<[name, type, default]>>
  user_flags,   \* the named flags on the command line: dest -> value
  config_pairs, \* the --config KEY=VALUE strings on the command line, in order
  now,          \* what datetime.now() returns
  phase,        \* "input" until build_context has run, then "built"
  cli_args,     \* ContextBuilder.cli_args: vars(args) of the parsed command line
  template_args,\* what template_metadata.get_arguments() returns to the builder
  context       \* the dict build_context returned

ctxVars ==
  <<config, env_vars, hint_vars, md_args, user_flags, config_pairs, now,
    phase, cli_args, template_args, context>>

VARIABLES
  compiled_cache_dir, \* TemplateMetadata.compiled_cache_dir: a path, or None
  fs,                 \* the files: path -> [content, mtime, readable]
  cache_writable,     \* whether files under the cache root can be written
  clock,              \* the time the file system stamps a write with
  result,             \* what the last get_compiled_content call returned or raised
  last_call           \* the last call: the template and source asked for, the
                      \* files before and after it, the result of the call right
                      \* before it, if any, and whether the process died in it

cacheVars == <<compiled_cache_dir, fs, cache_writable, clock, result, last_call>>

VARIABLES
  procs,     \* the concurrent get_compiled_content calls: process -> [pc, ret]
  variables, \* TemplateHintParser.variables: name -> TemplateVariable
  scanned,   \* the files _parse_file was called on so far: <<[path, content]>>
  document,  \* a text that compile passes are applied to
  previous,  \* the text before the last compile pass
  passes     \* how many compile passes were applied

parserVars == <<variables, scanned, document, previous, passes>>

VARIABLES
  called,    \* the last call of a validation or lookup helper, or of the init
             \* command: its arguments and what it returned
  prompt     \* the prompt_with_validation call in progress: its arguments, the
             \* input of the last round, and what it returned

commandVars == <<called, prompt>>

vars == <<ctxVars, cacheVars, procs, parserVars, commandVars>>

\* None, for a path
NoPath == <<>>

\* no call yet
NoResult == [status |-> "none", content |-> <<>>, error |-> "none"]

NoCall ==
  [template |-> NoPath, source |-> NoPath, pre |-> <<>>, post |-> <<>>, time |-> 0,
   writable |-> TRUE, served |-> FALSE, prior |-> NoResult,
   crashed |-> FALSE, after_crash |-> FALSE]

\* the cache machine at rest, while the context machine runs
CacheIdle ==
  /\ compiled_cache_dir = NoPath
  /\ fs = <<>>
  /\ cache_writable = TRUE
  /\ clock = 0
  /\ result = NoResult
  /\ last_call = NoCall

\* the hint parser at rest: nothing scanned, nothing compiled
ParserIdle ==
  /\ variables = <<>>
  /\ scanned = <<>>
  /\ document = <<>>
  /\ previous = <<>>
  /\ passes = 0

\* no helper was called
NoHelperCall ==
  [fn |-> "none", name |-> <<>>, value |-> <<>>, args |-> <<>>, ok |-> TRUE,
   message |-> <<>>, errors |-> <<>>, warned |-> FALSE, ret |-> <<>>]

\* no prompt is open
NoPrompt ==
  [pc |-> "idle", default |-> <<>>, hint |-> <<>>, allow_empty |-> TRUE,
   rounds |-> 0, input |-> <<>>, ret |-> <<>>]

\* the command helpers at rest
CommandIdle ==
  /\ called = NoHelperCall
  /\ prompt = NoPrompt

\* the context machine at rest, while the cache machine runs
ContextIdle ==
  /\ config = <<>>
  /\ env_vars = <<>>
  /\ hint_vars = <<>>
  /\ md_args = <<>>
  /\ user_flags = <<>>
  /\ config_pairs = <<>>
  /\ now = [year |-> 2026, month |-> 11, day |-> 3, hour |-> 22, minute |-> 31, second |-> 5]
  /\ phase = "input"
  /\ cli_args = <<>>
  /\ template_args = <<>>
  /\ context = <<>>

(***************************************************************************)
(* TemplateMetadata.get_arguments.                                         *)
(***************************************************************************)
RECURSIVE SetToSeq(_)
SetToSeq(S) ==
  IF S = {} THEN <<>>
  ELSE LET x == CHOOSE x \in S : TRUE IN <<x>> \o SetToSeq(S \ {x})

\* name.replace('-', '_')
Underscored(name) == [i \in DOMAIN name |-> IF name[i] = "-" THEN "_" ELSE name[i]]

\* the TemplateArgument of one hint variable
HintArgument(name, default) ==
  [name |-> name, type |-> "string", context_key |-> name, default |-> default]

\* the TemplateArgument of one TEMPLATE.md entry
MdArgument(a) ==
  [name |-> a.name, type |-> a.type, context_key |-> Underscored(a.name),
   default |-> a.default]

\* TEMPLATE.md entries are added only under names no hint variable has
RECURSIVE MdArguments(_, _)
MdArguments(args, seen) ==
  IF Len(args) = 0 THEN <<>>
  ELSE IF Len(args[1].name) > 0 /\ args[1].name \notin seen
    THEN <<MdArgument(args[1])>> \o MdArguments(Tail(args), seen)
    ELSE MdArguments(Tail(args), seen)

\* get_arguments(): hint variables first, then TEMPLATE.md arguments.  The
\* order among hint variables (sort_order, name) is immaterial here: their
\* names, and so their context keys, are pairwise distinct.
GetArguments(hints, md) ==
  LET names == SetToSeq(DOMAIN hints)
  IN  [i \in DOMAIN names |-> HintArgument(names[i], hints[names[i]])]
        \o MdArguments(md, DOMAIN hints)

(***************************************************************************)
(* argparse: the namespace parse_args() returns for the init command.      *)
(***************************************************************************)
\* destinations of the base parser kept in the model, with their defaults:
\* 'command' is always 'init', store_true flags default to False, every
\* other flag to None
BaseDefaults ==
  (KEY_COMMAND :> StrV(<<"i","n","i","t">>)) @@ (KEY_HELP :> BoolV(FALSE))
    @@ (KEY_DRY_RUN :> BoolV(FALSE)) @@ (KEY_GROUP :> NoneV)

\* option names (without the leading --) the base parser already owns
BaseOptions ==
  {KEY_GROUP, KEY_HELP, KEY_CONFIG, <<"d","r","y","-","r","u","n">>}

\* the default argparse gives the destination of one template argument:
\* action='store_true' implies default False, anything else None
ArgDefault(arg) == IF arg.type = "boolean" THEN BoolV(FALSE) ELSE NoneV

\* DynamicCLIBuilder.add_template_arguments: one destination per argument
\* whose option name the parser does not own yet (ArgumentError is swallowed)
RECURSIVE TemplateDefaults(_, _)
TemplateDefaults(args, owned) ==
  IF Len(args) = 0 THEN EmptyDict
  ELSE IF Len(args[1].name) = 0 \/ args[1].name \in owned
    THEN TemplateDefaults(Tail(args), owned)
    ELSE Update((args[1].context_key :> ArgDefault(args[1])),
                TemplateDefaults(Tail(args), owned \cup {args[1].name}))

\* vars(args) without 'config': defaults overlaid with what the user passed
Namespace(hints, md, flags) ==
  Update(Update(TemplateDefaults(GetArguments(hints, md), BaseOptions), BaseDefaults),
         flags)

(***************************************************************************)
(* ContextBuilder.build_context, step by step.                             *)
(***************************************************************************)
\* steps 1 and 2: context.update(config['defaults']), then
\* context.update(config['custom'])
WithConfig(ctx, cfg) ==
  LET c1 == IF "defaults" \in DOMAIN cfg THEN Update(ctx, cfg["defaults"]) ELSE ctx
  IN  IF "custom" \in DOMAIN cfg THEN Update(c1, cfg["custom"]) ELSE c1

\* step 3: every GRADLE_INIT_* variable, under its lower-cased remainder.
\* The environments of the model hold no two names with the same remainder
\* up to case, so the iteration order of the dict does not show.
WithEnv(ctx, env) ==
  LET names == {n \in DOMAIN env : StartsWith(n, ENV_PREFIX)}
      keyOf(n) == Lower(DropFirst(n, 12))
      tier == [k \in {keyOf(n) : n \in names} |->
                 ParseEnvValue(env[CHOOSE n \in names : keyOf(n) = k])]
  IN  Update(ctx, tier)

\* step 4: every entry of the CLI namespace that is not None and not reserved
WithCli(ctx, cli) ==
  LET keys == {k \in DOMAIN cli : cli[k] # NoneV /\ k \notin ReservedKeys}
  IN  Update(ctx, [k \in keys |-> cli[k]])

\* the key one --config string writes: dots flattened to underscores
FlatKey(key) == IF Contains(key, ".") THEN Join(Split(key, "."), "_") ELSE key

\* the mutant of WithConfigPairs that applies the strings last to first
RECURSIVE WithConfigPairsReversed(_, _)
WithConfigPairsReversed(ctx, pairs) ==
  IF Len(pairs) = 0 THEN ctx
  ELSE LET last == pairs[Len(pairs)]
           rest == SubSeq(pairs, 1, Len(pairs) - 1)
           kv == SplitOnce(last, "=")
       IN  IF Contains(last, "=")
             THEN WithConfigPairsReversed(Put(ctx, FlatKey(kv[1]), ParseEnvValue(kv[2])), rest)
             ELSE WithConfigPairsReversed(ctx, rest)

\* step 4a: the --config strings in order; a string without '=' is skipped
RECURSIVE WithConfigPairs(_, _)
WithConfigPairs(ctx, pairs) ==
  IF Len(pairs) = 0 THEN ctx
  ELSE LET kv == SplitOnce(pairs[1], "=")
       IN  IF Contains(pairs[1], "=")
             THEN WithConfigPairs(Put(ctx, FlatKey(kv[1]), ParseEnvValue(kv[2])), Tail(pairs))
             ELSE WithConfigPairs(ctx, Tail(pairs))

\* two decimal digits, four decimal digits
Fmt2(n) == <<Digits[(n \div 10) + 1], Digits[(n % 10) + 1]>>

Fmt4(n) == Fmt2(n \div 100) \o Fmt2(n % 100)

\* strftime('%Y-%m-%d')
DateOf(t) == Fmt4(t.year) \o <<"-">> \o Fmt2(t.month) \o <<"-">> \o Fmt2(t.day)

\* isoformat() (to the second)
IsoFormat(t) ==
  DateOf(t) \o <<"T">> \o Fmt2(t.hour) \o <<":">> \o Fmt2(t.minute) \o <<":">> \o Fmt2(t.second)

\* step 5: the computed values
WithComputed(ctx, t) ==
  Put(Put(Put(ctx, KEY_TIMESTAMP, StrV(IsoFormat(t))), KEY_YEAR, IntV(t.year)),
      KEY_DATE, StrV(DateOf(t)))

\* the mutant of WithTemplateDefaults that leaves a variable without default out
RECURSIVE WithTemplateDefaultsOnly(_, _)
WithTemplateDefaultsOnly(ctx, args) ==
  IF Len(args) = 0 THEN ctx
  ELSE IF args[1].context_key \notin DOMAIN ctx /\ args[1].default # NoneV
    THEN WithTemplateDefaultsOnly(Put(ctx, args[1].context_key, args[1].default), Tail(args))
    ELSE WithTemplateDefaultsOnly(ctx, Tail(args))

\* step 6: every declared argument still missing gets its default, or ""
RECURSIVE WithTemplateDefaults(_, _)
WithTemplateDefaults(ctx, args) ==
  IF Len(args) = 0 THEN ctx
  ELSE IF args[1].context_key \notin DOMAIN ctx
    THEN WithTemplateDefaults(
           Put(ctx, args[1].context_key,
               IF args[1].default # NoneV THEN args[1].default ELSE StrV(<<>>)),
           Tail(args))
    ELSE WithTemplateDefaults(ctx, Tail(args))

\* the mutant of BuildContext that applies the environment after the CLI tier
BuildContextEnvLast(cfg, env, cli, pairs, args, t) ==
  WithTemplateDefaults(
    WithComputed(
      WithEnv(WithConfigPairs(WithCli(WithConfig(EmptyDict, cfg), cli), pairs), env),
      t),
    args)

\* the mutant of BuildContext that computes timestamp, year and date first
BuildContextComputedFirst(cfg, env, cli, pairs, args, t) ==
  WithTemplateDefaults(
    WithConfigPairs(
      WithCli(WithEnv(WithConfig(WithComputed(EmptyDict, t), cfg), env), cli),
      pairs),
    args)

\* build_context()
BuildContext(cfg, env, cli, pairs, args, t) ==
  WithTemplateDefaults(
    WithComputed(
      WithConfigPairs(WithCli(WithEnv(WithConfig(EmptyDict, cfg), env), cli), pairs),
      t),
    args)

(***************************************************************************)
(* The inputs one run can be given.                                        *)
(***************************************************************************)
ENV_GROUP == ENV_PREFIX \o <<"G","R","O","U","P">>
ENV_DEBUG == ENV_PREFIX \o <<"D","E","B","U","G">>
ENV_YEAR  == ENV_PREFIX \o <<"Y","e","a","r">>
\* not recognised: the prefix is matched case-sensitively
ENV_LOWER == <<"g","r","a","d","l","e","_","i","n","i","t","_","g","r","o","u","p">>

\* what datetime.now() may return
Clock ==
  { [year |-> 2026, month |-> 11, day |-> 3, hour |-> 22, minute |-> 31, second |-> 5],
    [year |-> 2027, month |-> 1, day |-> 1, hour |-> 0, minute |-> 0, second |-> 0] }

\* entries the [defaults] and [custom] sections may hold
DefaultsChoices == {KEY_GROUP, KEY_YEAR}

CustomChoices == {KEY_GROUP, KEY_PORT}

VAL_DEFAULTS == StrV(<<"d">>)

VAL_CUSTOM == StrV(<<"c">>)

VAL_FLAG == StrV(<<"l">>)

VAL_TEMPLATE == StrV(<<"t">>)

\* environment variables that may be set, with their values
EnvChoices ==
  { <<ENV_GROUP, <<"8","0">> >>,
    <<ENV_DEBUG, <<"t","r","u","e">> >>,
    <<ENV_YEAR, <<"e">> >>,
    <<ENV_LOWER, <<"e">> >> }

\* hint variables a template may declare: <<name, default>>
HintChoices ==
  { <<KEY_GROUP, NoneV>>, <<KEY_GROUP, VAL_TEMPLATE>>,
    <<KEY_YEAR, VAL_TEMPLATE>>, <<KEY_A_B, NoneV>> }

\* TEMPLATE.md arguments a template may declare
MdChoices ==
  { [name |-> KEY_DEBUG, type |-> "boolean", default |-> NoneV],
    [name |-> KEY_PORT,  type |-> "integer", default |-> IntV(80)],
    [name |-> NAME_A_B,  type |-> "choice",  default |-> VAL_TEMPLATE] }

\* --config strings a command line may carry
PairChoices ==
  { <<"g","r","o","u","p","=","p">>,
    <<"g","r","o","u","p","=","1">>,
    <<"a",".","b","=","8","0">>,
    <<"y","e","a","r","=","p">>,
    <<"d","a","t","e","=","p">>,
    <<"p","o","r","t">> }

\* the value a flag of the given destination takes when the user passes it
FlagValue(dest, args) ==
  LET typed == {i \in DOMAIN args : args[i].context_key = dest}
  IN  IF dest = KEY_DRY_RUN THEN BoolV(TRUE)
      ELSE IF typed = {} THEN VAL_FLAG
      ELSE LET a == args[CHOOSE i \in typed : \A j \in typed : i <= j]
           IN  IF a.type = "boolean" THEN BoolV(TRUE)
               ELSE IF a.type = "integer" THEN IntV(9)
               ELSE VAL_FLAG

\* the arguments get_arguments() returns in the current state
Args == GetArguments(hint_vars, md_args)

\* vars(args) in the current state
Cli == Namespace(hint_vars, md_args, user_flags)

SectionOf(cfg, name) == IF name \in DOMAIN cfg THEN cfg[name] ELSE EmptyDict

Supplied ==
  Cardinality(DOMAIN SectionOf(config, "defaults"))
    + Cardinality(DOMAIN SectionOf(config, "custom"))
    + Cardinality(DOMAIN env_vars) + Cardinality(DOMAIN hint_vars) + Len(md_args)
    + Cardinality(DOMAIN user_flags) + Len(config_pairs)

(***************************************************************************)
(* Actions: the user prepares a run, then build_context runs once.         *)
(***************************************************************************)
Init ==
  /\ config = EmptyDict
  /\ env_vars = EmptyDict
  /\ hint_vars = EmptyDict
  /\ md_args = <<>>
  /\ user_flags = EmptyDict
  /\ config_pairs = <<>>
  /\ now = CHOOSE t \in Clock : t.year = 2026
  /\ phase = "input"
  /\ cli_args = EmptyDict
  /\ template_args = <<>>
  /\ context = EmptyDict
  /\ CacheIdle
  /\ procs = <<>>
  /\ CommandIdle
  /\ ParserIdle

\* an entry of the [defaults] section of the config file
PutDefaults(k) ==
  /\ phase = "input" /\ Supplied < MaxSupplied
  /\ k \notin DOMAIN SectionOf(config, "defaults")
  /\ config' = Put(config, "defaults", Put(SectionOf(config, "defaults"), k, VAL_DEFAULTS))
  /\ UNCHANGED <<env_vars, hint_vars, md_args, user_flags, config_pairs, now, phase, cli_args, template_args, context>>
  /\ UNCHANGED <<cacheVars, procs, parserVars, commandVars>>

\* an entry of the [custom] section of the config file
PutCustom(k) ==
  /\ phase = "input" /\ Supplied < MaxSupplied
  /\ k \notin DOMAIN SectionOf(config, "custom")
  /\ config' = Put(config, "custom", Put(SectionOf(config, "custom"), k, VAL_CUSTOM))
  /\ UNCHANGED <<env_vars, hint_vars, md_args, user_flags, config_pairs, now, phase, cli_args, template_args, context>>
  /\ UNCHANGED <<cacheVars, procs, parserVars, commandVars>>

\* an environment variable
SetEnv(name, raw) ==
  /\ phase = "input" /\ Supplied < MaxSupplied
  /\ name \notin DOMAIN env_vars
  /\ env_vars' = Put(env_vars, name, raw)
  /\ UNCHANGED <<config, hint_vars, md_args, user_flags, config_pairs, now, phase, cli_args, template_args, context>>
  /\ UNCHANGED <<cacheVars, procs, parserVars, commandVars>>

\* a variable the template's files declare
DeclareHint(name, default) ==
  /\ phase = "input" /\ Supplied < MaxSupplied
  /\ name \notin DOMAIN hint_vars
  /\ hint_vars' = Put(hint_vars, name, default)
  /\ UNCHANGED <<config, env_vars, md_args, user_flags, config_pairs, now, phase, cli_args, template_args, context>>
  /\ UNCHANGED <<cacheVars, procs, parserVars, commandVars>>

\* an argument TEMPLATE.md declares
DeclareArg(a) ==
  /\ phase = "input" /\ Supplied < MaxSupplied
  /\ \A i \in DOMAIN md_args : md_args[i].name # a.name
  /\ md_args' = Append(md_args, a)
  /\ UNCHANGED <<config, env_vars, hint_vars, user_flags, config_pairs, now, phase, cli_args, template_args, context>>
  /\ UNCHANGED <<cacheVars, procs, parserVars, commandVars>>

\* the user passes a named flag the parser knows
PassFlag(dest) ==
  /\ phase = "input" /\ Supplied < MaxSupplied
  /\ dest \in DOMAIN Cli /\ dest \notin ReservedKeys
  /\ dest \notin DOMAIN user_flags
  /\ user_flags' = Put(user_flags, dest, FlagValue(dest, Args))
  /\ UNCHANGED <<config, env_vars, hint_vars, md_args, config_pairs, now, phase, cli_args, template_args, context>>
  /\ UNCHANGED <<cacheVars, procs, parserVars, commandVars>>

\* the user passes --config KEY=VALUE
PassConfig(str) ==
  /\ phase = "input" /\ Supplied < MaxSupplied
  /\ Len(config_pairs) < MaxPairs
  /\ config_pairs' = Append(config_pairs, str)
  /\ UNCHANGED <<config, env_vars, hint_vars, md_args, user_flags, now, phase, cli_args, template_args, context>>
  /\ UNCHANGED <<cacheVars, procs, parserVars, commandVars>>

\* ContextBuilder(config, env, vars(args), metadata).build_context()
BuildContextAction ==
  /\ phase = "input"
  /\ cli_args' = Cli
  /\ template_args' = Args
  /\ \E t \in Clock :
       /\ now' = t
       /\ context' = BuildContext(config, env_vars, cli_args', config_pairs, template_args', t)
  /\ phase' = "built"
  /\ UNCHANGED <<config, env_vars, hint_vars, md_args, user_flags, config_pairs>>
  /\ UNCHANGED <<cacheVars, procs, parserVars, commandVars>>

Next ==
  \/ \E k \in DefaultsChoices : PutDefaults(k)
  \/ \E k \in CustomChoices : PutCustom(k)
  \/ \E e \in EnvChoices : SetEnv(e[1], e[2])
  \/ \E h \in HintChoices : DeclareHint(h[1], h[2])
  \/ \E a \in MdChoices : DeclareArg(a)
  \/ \E d \in {KEY_GROUP, KEY_DEBUG, KEY_PORT, KEY_A_B, KEY_YEAR, KEY_DRY_RUN} : PassFlag(d)
  \/ \E s \in PairChoices : PassConfig(s)
  \/ BuildContextAction

Spec == Init /\ [][Next]_vars

(***************************************************************************)
(* What each source supplies for a key, read off the inputs.               *)
(***************************************************************************)
\* the recognised environment variables that name key k
EnvNamesOf(k) ==
  {n \in DOMAIN env_vars : StartsWith(n, ENV_PREFIX) /\ Lower(DropFirst(n, 12)) = k}

EnvSupplies(k) == EnvNamesOf(k) # {}

EnvValuesOf(k) == {ParseEnvValue(env_vars[n]) : n \in EnvNamesOf(k)}

\* the namespace holds a value for k that build_context may copy
CliSupplies(k) == k \in DOMAIN cli_args /\ cli_args[k] # NoneV /\ k \notin ReservedKeys

\* the --config strings that write key k
PairsOf(k) ==
  {i \in DOMAIN config_pairs :
     /\ Contains(config_pairs[i], "=")
     /\ FlatKey(SplitOnce(config_pairs[i], "=")[1]) = k}

PairValue(i) == ParseEnvValue(SplitOnce(config_pairs[i], "=")[2])

ConfigSupplies(k) == \E sec \in DOMAIN config : k \in DOMAIN config[sec]

ConfigValuesOf(k) == {config[sec][k] : sec \in {x \in DOMAIN config : k \in DOMAIN config[x]}}

DeclaredKeys == {template_args[i].context_key : i \in DOMAIN template_args}

\* the default of the first declared argument with context key k
DeclaredDefault(k) ==
  LET idx == {i \in DOMAIN template_args : template_args[i].context_key = k}
  IN  template_args[CHOOSE i \in idx : \A j \in idx : i <= j].default

\* what the template tier gives a declared key: its default, or ""
TemplateValue(k) == IF DeclaredDefault(k) # NoneV THEN DeclaredDefault(k) ELSE StrV(<<>>)

\* every key some source names
SourceKeys ==
  {k \in DOMAIN cli_args : CliSupplies(k)}
    \cup {Lower(DropFirst(n, 12)) : n \in {x \in DOMAIN env_vars : StartsWith(x, ENV_PREFIX)}}
    \cup DOMAIN SectionOf(config, "defaults") \cup DOMAIN SectionOf(config, "custom")
    \cup {FlatKey(SplitOnce(config_pairs[i], "=")[1]) :
            i \in {j \in DOMAIN config_pairs : Contains(config_pairs[j], "=")}}
    \cup DeclaredKeys

(***************************************************************************)
(* Claims about build_context.                                             *)
(***************************************************************************)
\* C1: precedence law.  For every key other than the three computed ones
\* (C5), the built context holds the CLI-tier value when the CLI namespace
\* (or a --config pair) supplies the key; failing that the coerced value of
\* its environment variable; failing that its persisted-config value;
\* failing that the template-declared default; and "" for a declared key no
\* source supplies.
PrecedenceLaw ==
  phase = "built" =>
    \A k \in SourceKeys \ ComputedKeys :
      /\ k \in DOMAIN context
      /\ IF PairsOf(k) # {} THEN context[k] \in {PairValue(i) : i \in PairsOf(k)}
         ELSE IF CliSupplies(k) THEN context[k] = cli_args[k]
         ELSE IF EnvSupplies(k) THEN context[k] \in EnvValuesOf(k)
         ELSE IF ConfigSupplies(k) THEN context[k] \in ConfigValuesOf(k)
         ELSE context[k] = TemplateValue(k)

\* C1 witness: 'group' is supplied by the CLI, the environment, the config
\* and the template default at once, and the context holds the CLI value.
PrecedenceLawWitness ==
  /\ phase = "built"
  /\ KEY_GROUP \in DOMAIN user_flags
  /\ EnvSupplies(KEY_GROUP)
  /\ ConfigSupplies(KEY_GROUP)
  /\ KEY_GROUP \in DeclaredKeys /\ DeclaredDefault(KEY_GROUP) # NoneV
  /\ context[KEY_GROUP] = user_flags[KEY_GROUP]

\* C2 (as claimed): a key in both [defaults] and [custom], with no CLI or
\* environment value, resolves to the [defaults] value.
DefaultsWinOverCustom ==
  phase = "built" =>
    \A k \in (DOMAIN SectionOf(config, "defaults")) \cap (DOMAIN SectionOf(config, "custom")) :
      (~CliSupplies(k) /\ PairsOf(k) = {} /\ ~EnvSupplies(k) /\ k \notin ComputedKeys)
        => context[k] = config["defaults"][k]

\* C3 (as claimed): a template flag the user did not pass never overrides
\* the value the environment, the config or the template default supplies.
UnsetFlagNeverOverrides ==
  phase = "built" =>
    \A k \in DeclaredKeys \ ComputedKeys :
      ( /\ k \in DOMAIN cli_args /\ k \notin DOMAIN user_flags /\ PairsOf(k) = {}
        /\ (EnvSupplies(k) \/ ConfigSupplies(k) \/ DeclaredDefault(k) # NoneV) )
        => IF EnvSupplies(k) THEN context[k] \in EnvValuesOf(k)
           ELSE IF ConfigSupplies(k) THEN context[k] \in ConfigValuesOf(k)
           ELSE context[k] = DeclaredDefault(k)

\* C4: the built context has a key for every declared argument, and a
\* declared key that no source supplies and no declaration gives a default
\* holds the empty string.
EveryDeclaredVariablePresent ==
  phase = "built" =>
    \A i \in DOMAIN template_args :
      LET k == template_args[i].context_key
      IN  /\ k \in DOMAIN context
          /\ ( /\ ~CliSupplies(k) /\ PairsOf(k) = {} /\ ~EnvSupplies(k)
               /\ ~ConfigSupplies(k) /\ k \notin ComputedKeys
               /\ \A j \in DOMAIN template_args : template_args[j].context_key = k => template_args[j].default = NoneV )
             => context[k] = StrV(<<>>)

\* C4 witness: a declared variable without default that no source supplies
\* is in the context with the empty string.
EveryDeclaredVariablePresentWitness ==
  /\ phase = "built"
  /\ KEY_A_B \in DOMAIN hint_vars /\ hint_vars[KEY_A_B] = NoneV
  /\ md_args = <<>>
  /\ ~CliSupplies(KEY_A_B) /\ PairsOf(KEY_A_B) = {} /\ ~EnvSupplies(KEY_A_B)
  /\ ~ConfigSupplies(KEY_A_B)
  /\ context[KEY_A_B] = StrV(<<>>)

\* C5: timestamp, year and date of the built context are the computed
\* values, whatever any source supplies under these keys.
ComputedKeysNotOverridable ==
  phase = "built" =>
    /\ context[KEY_TIMESTAMP] = StrV(IsoFormat(now))
    /\ context[KEY_YEAR] = IntV(now.year)
    /\ context[KEY_DATE] = StrV(DateOf(now))

\* C5 witness: a --config pair, the environment, the config and a template
\* default all supply 'year', and the context holds the computed year.
ComputedKeysNotOverridableWitness ==
  /\ phase = "built"
  /\ PairsOf(KEY_YEAR) # {}
  /\ EnvSupplies(KEY_YEAR)
  /\ ConfigSupplies(KEY_YEAR)
  /\ KEY_YEAR \in DeclaredKeys /\ DeclaredDefault(KEY_YEAR) # NoneV
  /\ context[KEY_YEAR] = IntV(now.year)

\* C6: the --config pairs are applied after the named flags and in the
\* order given: for every key a pair writes (computed keys aside, C5), the
\* context holds the typed coercion of the VALUE of the last pair writing
\* that key, also when a named flag supplies the same key.
ConfigPairsAppliedInOrder ==
  phase = "built" =>
    \A i \in DOMAIN config_pairs :
      Contains(config_pairs[i], "=") =>
        LET k == FlatKey(SplitOnce(config_pairs[i], "=")[1])
        IN  (k \notin ComputedKeys /\ \A j \in PairsOf(k) : j <= i)
              => context[k] = PairValue(i)

\* C6 witness: the flag --group is passed, two --config pairs write 'group',
\* and the context holds the coerced value of the second.
ConfigPairsAppliedInOrderWitness ==
  /\ phase = "built"
  /\ KEY_GROUP \in DOMAIN user_flags
  /\ Len(config_pairs) = 2
  /\ PairsOf(KEY_GROUP) = {1, 2}
  /\ PairValue(1) # PairValue(2)
  /\ context[KEY_GROUP] = PairValue(2)
  /\ context[KEY_GROUP] # user_flags[KEY_GROUP]

(***************************************************************************)
(* _parse_env_value over many strings: one environment variable and one    *)
(* --config pair carry the same raw string into build_context.             *)
(***************************************************************************)
\* strings of length MaxRawLen at most are drawn exhaustively from RawAlphabet
MaxRawLen == 2

RawAlphabet == {"1", "0", "5", "-", "_", ",", " ", "n", "O", "a", "="}

RECURSIVE StringsUpTo(_)
StringsUpTo(n) ==
  IF n = 0 THEN {<<>>}
  ELSE LET shorter == StringsUpTo(n - 1)
       IN  shorter \cup {Append(w, c) : w \in {x \in shorter : Len(x) = n - 1}, c \in RawAlphabet}

\* the strings of the coercion table and their neighbours
TableStrings ==
  { <<"t","r","u","e">>, <<"T","r","U","e">>, <<"y","e","s">>, <<"Y","E","S">>,
    <<"f","a","l","s","e">>, <<"F","A","L","S","E">>, <<"N","O">>,
    <<"8","0","8","0">>, <<" ","4","2"," ">>, <<"1","_","0","0">>, <<"-","1","5">>,
    <<"w","e","b",",","d","a","t","a","-","j","p","a">>,
    <<" ","a"," ",","," ","b"," ">>, <<"1",",","0">>, <<"t","r","u","e",",","n","o">>,
    <<"m","y","-","a","p","p">>, <<"t","r","u","e","x">>, <<" ","t","r","u","e">>,
    <<"1","_","_","0">>, <<"a","=","b">> }

RawStrings == StringsUpTo(MaxRawLen) \cup TableStrings

InitCoerce ==
  /\ config = EmptyDict
  /\ \E raw \in RawStrings :
       /\ env_vars = (ENV_GROUP :> raw)
       /\ config_pairs = << <<"a",".","b","=">> \o raw >>
  /\ hint_vars = EmptyDict
  /\ md_args = <<>>
  /\ user_flags = EmptyDict
  /\ now = CHOOSE t \in Clock : t.year = 2026
  /\ phase = "input"
  /\ cli_args = EmptyDict
  /\ template_args = <<>>
  /\ context = EmptyDict
  /\ CacheIdle
  /\ procs = <<>>
  /\ CommandIdle
  /\ ParserIdle

NextCoerce == BuildContextAction

(***************************************************************************)
(* The coercion rules, as the specification words them.                    *)
(***************************************************************************)
SameIgnoringCase(a, b) ==
  Len(a) = Len(b) /\ \A i \in DOMAIN a : LowerChar(a[i]) = LowerChar(b[i])

IsTrueWord(raw) == \E w \in {STR_TRUE, STR_YES, STR_ONE} : SameIgnoringCase(raw, w)

IsFalseWord(raw) == \E w \in {STR_FALSE, STR_NO, STR_ZERO} : SameIgnoringCase(raw, w)

RECURSIVE Pow10(_)
Pow10(n) == IF n = 0 THEN 1 ELSE 10 * Pow10(n - 1)

RECURSIVE SumOver(_, _)
SumOver(f, S) ==
  IF S = {} THEN 0
  ELSE LET x == CHOOSE x \in S : TRUE IN f[x] + SumOver(f, S \ {x})

\* the number a decimal string denotes: each digit weighs ten to the number
\* of digits after it; a leading '-' negates
DecimalValue(raw) ==
  LET pos == {i \in DOMAIN raw : IsDigit(raw[i])}
      weight == [i \in pos |->
                   DigitValue(raw[i]) * Pow10(Cardinality({j \in pos : j > i}))]
      magnitude == SumOver(weight, pos)
  IN  IF \E i \in DOMAIN raw : raw[i] = "-" THEN 0 - magnitude ELSE magnitude

\* the trimmed comma-separated parts of raw
TrimmedParts(raw) ==
  LET commas == {i \in DOMAIN raw : raw[i] = ","}
      nth(j) == CHOOSE p \in commas : Cardinality({q \in commas : q < p}) = j - 1
      n == Cardinality(commas)
  IN  [j \in 1..(n + 1) |->
         Strip(SubSeq(raw,
                      IF j = 1 THEN 1 ELSE nth(j - 1) + 1,
                      IF j = n + 1 THEN Len(raw) ELSE nth(j) - 1))]

\* v is what typed coercion makes of raw
CoercesTo(raw, v) ==
  IF IsTrueWord(raw) THEN v = BoolV(TRUE)
  ELSE IF IsFalseWord(raw) THEN v = BoolV(FALSE)
  ELSE IF IsPyInt(raw) THEN v = IntV(DecimalValue(raw))
  ELSE IF Contains(raw, ",") THEN v = ListV(TrimmedParts(raw))
  ELSE v = StrV(raw)

\* C7: typed coercion.  Whatever build_context stores for an environment
\* variable, and for a --config pair, is made from the raw string by the
\* same ordered rules: true/yes/1 and false/no/0 (any case) give booleans,
\* else a base-10 integer string gives its integer, else a string with a
\* comma gives the list of its trimmed parts, else the string itself.
TypedCoercion ==
  phase = "built" =>
    /\ \A n \in DOMAIN env_vars :
         LET k == Lower(DropFirst(n, 12))
         IN  ( /\ StartsWith(n, ENV_PREFIX) /\ EnvNamesOf(k) = {n}
               /\ ~CliSupplies(k) /\ PairsOf(k) = {} /\ k \notin ComputedKeys )
               => CoercesTo(env_vars[n], context[k])
    /\ \A i \in DOMAIN config_pairs :
         Contains(config_pairs[i], "=") =>
           LET k == FlatKey(SplitOnce(config_pairs[i], "=")[1])
           IN  (k \notin ComputedKeys /\ \A j \in PairsOf(k) : j <= i)
                 => CoercesTo(SplitOnce(config_pairs[i], "=")[2], context[k])

\* C7 witness: the raw string "1" reached the context as boolean true, not
\* as the integer 1, through the environment and through --config alike.
TypedCoercionWitness ==
  /\ phase = "built"
  /\ ENV_GROUP \in DOMAIN env_vars /\ env_vars[ENV_GROUP] = <<"1">>
  /\ config_pairs = << <<"a",".","b","=","1">> >>
  /\ context[KEY_GROUP] = BoolV(TRUE)
  /\ context[KEY_A_B] = BoolV(TRUE)

SpecCoerce == InitCoerce /\ [][NextCoerce]_vars

(***************************************************************************)
(* TemplateHintParser.ENHANCED_PATTERN and compile_template.               *)
(*                                                                         *)
(*   \{\{\s*@@ (?:(\d+)\|)? (?:\(([^)]+)\)\|)? ([^@]+?) @@ (ident) \s*\}\} *)
(*                                                                         *)
(* matched as re does: leftmost, each optional group tried before it is    *)
(* skipped, the help text as short as possible.                            *)
(***************************************************************************)
\* the character at index i, "" past the end
At(text, i) == IF i >= 1 /\ i <= Len(text) THEN text[i] ELSE ""

IsSpace(c) == c \in Whitespace

IsIdentStart(c) == c \in Range(LowerCase) \cup Range(UpperCase) \cup {"_"}

IsIdentChar(c) == IsIdentStart(c) \/ IsDigit(c)

NotCloseParen(c) == c # ")"

NotAtSign(c) == c # "@"

\* the index after the longest run, from index i, of characters in class P
\* (a position is worked out once, then the run is taken from it)
RunEnd(text, i, P(_)) ==
  LET from[p \in Nat] ==
        CHOOSE j \in p..(Len(text) + 1) :
          /\ \A k \in p..(j - 1) : P(text[k])
          /\ j = Len(text) + 1 \/ ~P(text[j])
  IN  from[i]

\* (?:(\d+)\|) at index p: the index after it, 0 when it does not match
SortEnd(text, p) ==
  LET after[d \in Nat] == IF d > p /\ At(text, d) = "|" THEN d + 1 ELSE 0
  IN  after[RunEnd(text, p, IsDigit)]

\* (?:\(([^)]+)\)\|) at index p: the index after it, 0 when it does not match
PatternEnd(text, p) ==
  LET after[c \in Nat] ==
        IF c > p + 1 /\ At(text, c) = ")" /\ At(text, c + 1) = "|" THEN c + 2 ELSE 0
  IN  IF At(text, p) # "(" THEN 0
      ELSE after[RunEnd(text, p + 1, NotCloseParen)]

NoMatch == [ok |-> FALSE, end |-> 0, name |-> <<>>, help |-> <<>>]

\* ([^@]+?)@@(ident)\s*\}\} at index q
TailMatch(text, q) ==
  LET \* r: after the help text; e: after the name; w: after the spaces
      close[r \in Nat, e \in Nat, w \in Nat] ==
        IF At(text, w) = "}" /\ At(text, w + 1) = "}"
          THEN [ok |-> TRUE, end |-> w + 2, name |-> SubSeq(text, r + 2, e - 1),
                help |-> SubSeq(text, q, r - 1)]
          ELSE NoMatch
      spaces[r \in Nat, e \in Nat] == close[r, e, RunEnd(text, e, IsSpace)]
      name[r \in Nat] ==
        IF /\ r > q
           /\ At(text, r) = "@" /\ At(text, r + 1) = "@"
           /\ IsIdentStart(At(text, r + 2))
          THEN spaces[r, RunEnd(text, r + 2, IsIdentChar)]
          ELSE NoMatch
      help[p \in Nat] == name[RunEnd(text, p, NotAtSign)]
  IN  IF q >= 1 THEN help[q] ELSE NoMatch

\* ENHANCED_PATTERN.match(text, i - 1): the match starting at index i, with
\* its groups: sort (<<>> when the group took no part), pattern (likewise),
\* help and name
MatchAt(text, i) ==
  LET Fail == [ok |-> FALSE, end |-> 0, name |-> <<>>, help |-> <<>>,
               sort |-> <<>>, pattern |-> <<>>]
      with(m, srt, pat) ==
        [ok |-> TRUE, end |-> m.end, name |-> m.name, help |-> m.help,
         sort |-> srt, pattern |-> pat]
      \* the alternatives in the order re tries them: both optional groups,
      \* the sort group only, the pattern group only, neither.
      \* p: after '@@'; s: after the sort group; sp: after both; pp: after
      \* the pattern group alone (0: the group does not match there)
      first(p, s, sp, pp, both, sortOnly, patOnly, neither) ==
        IF sp > 0 /\ both.ok THEN
          with(both, SubSeq(text, p, s - 2), SubSeq(text, s + 1, sp - 3))
        ELSE IF s > 0 /\ sortOnly.ok THEN with(sortOnly, SubSeq(text, p, s - 2), <<>>)
        ELSE IF pp > 0 /\ patOnly.ok THEN with(patOnly, <<>>, SubSeq(text, p + 1, pp - 3))
        ELSE IF neither.ok THEN with(neither, <<>>, <<>>)
        ELSE Fail
      tails[p \in Nat, s \in Nat, sp \in Nat, pp \in Nat] ==
        first(p, s, sp, pp, TailMatch(text, sp), TailMatch(text, s),
              TailMatch(text, pp), TailMatch(text, p))
      groups[p \in Nat, s \in Nat] ==
        tails[p, s, IF s > 0 THEN PatternEnd(text, s) ELSE 0, PatternEnd(text, p)]
      open[a \in Nat] ==
        IF At(text, a) = "@" /\ At(text, a + 1) = "@"
          THEN groups[a + 2, SortEnd(text, a + 2)]
          ELSE Fail
  IN  IF At(text, i) = "{" /\ At(text, i + 1) = "{"
        THEN open[RunEnd(text, i + 2, IsSpace)]
        ELSE Fail

\* the mutant of ReplaceEnhanced that leaves out the spaces
ReplaceEnhancedTight(m) == <<"{", "{">> \o m.name \o <<"}", "}">>

\* replace_enhanced: '{{ ' + var_name + ' }}'
ReplaceEnhanced(m) == <<"{", "{", " ">> \o m.name \o <<" ", "}", "}">>

\* ENHANCED_PATTERN.sub(replace_enhanced, content): what compile_template
\* makes of a file's content.  sub[i] is the substitution from index i on:
\* a match is replaced and the scan goes on after it, any other character is
\* copied.
Compile(content) ==
  LET sub[i \in 1..(Len(content) + 1)] ==
        LET step(m) ==
              IF m.ok THEN ReplaceEnhanced(m) \o sub[m.end]
              ELSE <<content[i]>> \o sub[i + 1]
        IN  IF i > Len(content) THEN <<>> ELSE step(MatchAt(content, i))
  IN  sub[1]

(***************************************************************************)
(* The compiled-template cache: TemplateMetadata over a file system.       *)
(*                                                                         *)
(* A path is a tuple of components.  A file is a record: its content (a    *)
(* text, or bytes that do not decode as UTF-8), its mtime, and whether the *)
(* process may read it.  The file system stamps every write with the       *)
(* clock; an mtime is never later than the clock.                          *)
(***************************************************************************)
\* the latest time of the model
MaxClock == 2

TEMPLATE_PATH == <<"templates", "kotlin-single">>

CACHE_DIR == <<"cache", "compiled">>

\* a template file, and a file that is not under the template directory
SOURCE_FILE == TEMPLATE_PATH \o <<"build.gradle.kts">>

\* a second template directory, given by local path, of the same name
LOCAL_TEMPLATE_PATH == <<"work", "kotlin-single">>

\* its file at the same relative path: outside TEMPLATE_PATH
OUTSIDE_FILE == LOCAL_TEMPLATE_PATH \o <<"build.gradle.kts">>

\* bytes that raise UnicodeDecodeError when read as UTF-8 text
InvalidUtf8 == <<"0xFF">>

TEXT_ENHANCED == <<"{","{"," ","@","@","0","1","|","h","=","1","@","@","a"," ","}","}">>

TEXT_EDITED == <<"{","{"," ","@","@","h","@","@","b"," ","}","}","\n">>

\* the text of the second template's file
TEXT_LOCAL == <<"{","{"," ","@","@","h","@","@","c"," ","}","}">>

\* the texts a source file may hold
SourceTexts == {TEXT_ENHANCED, TEXT_EDITED}

\* what a source file may hold
SourceContents == SourceTexts \cup {InvalidUtf8}

FileOf(content, mtime, readable) ==
  [content |-> content, mtime |-> mtime, readable |-> readable]

\* Path.read_text(encoding='utf-8'): the text, or the error raised
ReadText(files, path) ==
  IF path \notin DOMAIN files THEN [error |-> "FileNotFoundError", text |-> <<>>]
  ELSE IF ~files[path].readable THEN [error |-> "PermissionError", text |-> <<>>]
  ELSE IF files[path].content = InvalidUtf8 THEN [error |-> "UnicodeDecodeError", text |-> <<>>]
  ELSE [error |-> "none", text |-> files[path].content]

Returned(content) == [status |-> "ok", content |-> content, error |-> "none"]

Raised(error) == [status |-> "raise", content |-> <<>>, error |-> error]

\* TemplateHintParser.compile_template: only a decode or permission error
\* of the read is caught (and gives ""); any other error propagates
CompileTemplate(files, path) ==
  LET r == ReadText(files, path)
  IN  IF r.error \in {"UnicodeDecodeError", "PermissionError"} THEN Returned(<<>>)
      ELSE IF r.error # "none" THEN Raised(r.error)
      ELSE Returned(Compile(r.text))

\* the mutant of CompiledFilePath that files a source outside the template
\* directory under its file name
CompiledFilePathByName(cache_dir, template_path, source_file) ==
  IF cache_dir = NoPath THEN NoPath
  ELSE IF ~StartsWith(source_file, template_path)
    THEN cache_dir \o <<template_path[Len(template_path)], source_file[Len(source_file)]>>
  ELSE cache_dir \o <<template_path[Len(template_path)]>>
         \o DropFirst(source_file, Len(template_path))

\* TemplateMetadata._get_compiled_file_path: None without a cache directory
\* or for a file outside the template directory, else
\* cache_dir / template_path.name / relative path
CompiledFilePath(cache_dir, template_path, source_file) ==
  IF cache_dir = NoPath THEN NoPath
  ELSE IF ~StartsWith(source_file, template_path) THEN NoPath
  ELSE cache_dir \o <<template_path[Len(template_path)]>>
         \o DropFirst(source_file, Len(template_path))

\* the mutant of IsCacheValid that asks the cache entry to be strictly newer
IsCacheValidStrict(files, source_file, compiled_file) ==
  IF compiled_file \notin DOMAIN files THEN [error |-> "none", valid |-> FALSE]
  ELSE IF source_file \notin DOMAIN files THEN [error |-> "FileNotFoundError", valid |-> FALSE]
  ELSE [error |-> "none",
        valid |-> files[compiled_file].mtime > files[source_file].mtime]

\* the mutant of IsCacheValid that takes any existing entry as valid
IsCacheValidIfExists(files, source_file, compiled_file) ==
  IF compiled_file \notin DOMAIN files THEN [error |-> "none", valid |-> FALSE]
  ELSE IF source_file \notin DOMAIN files THEN [error |-> "FileNotFoundError", valid |-> FALSE]
  ELSE [error |-> "none", valid |-> TRUE]

\* TemplateMetadata._is_cache_valid: False without an entry; else both files
\* are stat()ed (which raises for a missing source) and the mtimes compared
IsCacheValid(files, source_file, compiled_file) ==
  IF compiled_file \notin DOMAIN files THEN [error |-> "none", valid |-> FALSE]
  ELSE IF source_file \notin DOMAIN files THEN [error |-> "FileNotFoundError", valid |-> FALSE]
  ELSE [error |-> "none",
        valid |-> files[compiled_file].mtime >= files[source_file].mtime]

\* the mutant of WriteCache that clears the directory of the entry first
WriteCacheSweeping(files, compiled_file, content, writable, time) ==
  LET sibling(p) == /\ p # compiled_file
                    /\ Len(p) = Len(compiled_file)
                    /\ SubSeq(p, 1, Len(p) - 1) = SubSeq(compiled_file, 1, Len(p) - 1)
      kept == {p \in DOMAIN files : ~sibling(p)}
  IN  IF ~writable THEN files
      ELSE IF compiled_file \in DOMAIN files /\ ~files[compiled_file].readable THEN files
      ELSE [p \in kept \cup {compiled_file} |->
              IF p = compiled_file THEN FileOf(content, time, TRUE) ELSE files[p]]

\* the mutant of WriteCache that never writes over an entry that is there
WriteCacheKeepExisting(files, compiled_file, content, writable, time) ==
  IF ~writable THEN files
  ELSE IF compiled_file \in DOMAIN files THEN files
  ELSE Put(files, compiled_file, FileOf(content, time, TRUE))

\* compiled_file.parent.mkdir(...); compiled_file.write_text(content): the
\* files afterwards.  An OSError (the cache volume refuses writes, or the
\* entry is there with its permissions taken away) is swallowed and leaves
\* the files as they were.
WriteCache(files, compiled_file, content, writable, time) ==
  IF ~writable THEN files
  ELSE IF compiled_file \in DOMAIN files /\ ~files[compiled_file].readable THEN files
  ELSE Put(files, compiled_file, FileOf(content, time, TRUE))

\* write_text is open(file, 'w'), which empties the file, then write(data):
\* the files when the process dies with k characters of the data on disk
WriteCachePartly(files, compiled_file, content, writable, time, k) ==
  WriteCache(files, compiled_file, SubSeq(content, 1, k), writable, time)

\* the mutant of GetCompiledContent that lets the OSError of a failed write
\* reach the caller
GetCompiledContentWriteRaises(files, cache_dir, template_path, source_file, writable, time) ==
  LET body(compiled_file, check, cached, compiled) ==
        IF compiled_file = NoPath
          THEN [result |-> compiled, files |-> files, served |-> FALSE]
        ELSE IF check.error # "none"
          THEN [result |-> Raised(check.error), files |-> files, served |-> FALSE]
        ELSE IF check.valid /\ cached.error = "none"
          THEN [result |-> Returned(cached.text), files |-> files, served |-> TRUE]
        ELSE IF compiled.status = "raise"
          THEN [result |-> compiled, files |-> files, served |-> FALSE]
        ELSE IF \/ ~writable
                \/ compiled_file \in DOMAIN files /\ ~files[compiled_file].readable
          THEN [result |-> Raised("OSError"), files |-> files, served |-> FALSE]
        ELSE [result |-> compiled,
              files |-> WriteCache(files, compiled_file, compiled.content, writable, time),
              served |-> FALSE]
      at(compiled_file) ==
        body(compiled_file,
             IsCacheValid(files, source_file, compiled_file),
             ReadText(files, compiled_file),
             CompileTemplate(files, source_file))
  IN  at(CompiledFilePath(cache_dir, template_path, source_file))

\* TemplateMetadata.get_compiled_content: what it returns or raises, the
\* files it leaves, and whether the return is the one that serves the entry
GetCompiledContent(files, cache_dir, template_path, source_file, writable, time) ==
  LET \* compiled_file: the entry's path; check: _is_cache_valid; cached:
      \* the read of the entry; compiled: compile_template(source_file)
      body(compiled_file, check, cached, compiled) ==
        IF compiled_file = NoPath
          THEN [result |-> compiled, files |-> files, served |-> FALSE]
        ELSE IF check.error # "none"
          THEN [result |-> Raised(check.error), files |-> files, served |-> FALSE]
        ELSE IF check.valid /\ cached.error = "none"
          THEN [result |-> Returned(cached.text), files |-> files, served |-> TRUE]
        ELSE IF compiled.status = "raise"
          THEN [result |-> compiled, files |-> files, served |-> FALSE]
        ELSE [result |-> compiled,
              files |-> WriteCache(files, compiled_file, compiled.content, writable, time),
              served |-> FALSE]
      at(compiled_file) ==
        body(compiled_file,
             IsCacheValid(files, source_file, compiled_file),
             ReadText(files, compiled_file),
             CompileTemplate(files, source_file))
  IN  at(CompiledFilePath(cache_dir, template_path, source_file))

\* the files get_compiled_content may be asked for
SourceFiles == {SOURCE_FILE, OUTSIDE_FILE}

\* the template directories a TemplateMetadata is made for
TemplatePaths == {TEMPLATE_PATH, LOCAL_TEMPLATE_PATH}

\* the cache entry of the template file
COMPILED_FILE == CompiledFilePath(CACHE_DIR, TEMPLATE_PATH, SOURCE_FILE)

Remove(files, path) == [p \in DOMAIN files \ {path} |-> files[p]]

\* a cache entry an earlier run left for a template file that is gone since
ORPHAN_ENTRY == CACHE_DIR \o <<"kotlin-single", "settings.gradle.kts">>

\* TemplateMetadata(template_path, compiled_cache_dir) for each template, over
\* one cache root, both files there, nothing of them compiled yet
InitCache ==
  /\ ContextIdle
  /\ procs = <<>>
  /\ CommandIdle
  /\ ParserIdle
  /\ compiled_cache_dir \in {CACHE_DIR, NoPath}
  /\ fs = [p \in SourceFiles \cup {ORPHAN_ENTRY} |->
             FileOf(IF p = SOURCE_FILE THEN TEXT_ENHANCED
                    ELSE IF p = OUTSIDE_FILE THEN TEXT_LOCAL
                    ELSE Compile(TEXT_EDITED), 0, TRUE)]
  /\ cache_writable = TRUE
  /\ clock = 0
  /\ result = NoResult
  /\ last_call = NoCall

\* time passes
Tick ==
  /\ clock < MaxClock
  /\ clock' = clock + 1
  /\ UNCHANGED <<compiled_cache_dir, fs, cache_writable, result, last_call, ctxVars, procs, parserVars, commandVars>>

\* the template file is written (or restored with an older mtime)
EditSource(path, content, mtime) ==
  /\ fs' = Put(fs, path, FileOf(content, mtime, TRUE))
  /\ last_call' = NoCall
  /\ UNCHANGED <<compiled_cache_dir, cache_writable, clock, result, ctxVars, procs, parserVars, commandVars>>

DeleteSource(path) ==
  /\ path \in DOMAIN fs
  /\ fs' = Remove(fs, path)
  /\ last_call' = NoCall
  /\ UNCHANGED <<compiled_cache_dir, cache_writable, clock, result, ctxVars, procs, parserVars, commandVars>>

\* chmod 000 / chmod 644 of a file
Chmod(path, readable) ==
  /\ path \in DOMAIN fs
  /\ fs[path].readable # readable
  /\ fs' = Put(fs, path, FileOf(fs[path].content, fs[path].mtime, readable))
  /\ last_call' = NoCall
  /\ UNCHANGED <<compiled_cache_dir, cache_writable, clock, result, ctxVars, procs, parserVars, commandVars>>

\* the cache entry is damaged on disk
CorruptCache ==
  /\ COMPILED_FILE \in DOMAIN fs
  /\ fs' = Put(fs, COMPILED_FILE, FileOf(InvalidUtf8, clock, fs[COMPILED_FILE].readable))
  /\ last_call' = NoCall
  /\ UNCHANGED <<compiled_cache_dir, cache_writable, clock, result, ctxVars, procs, parserVars, commandVars>>

\* the cache is cleared
DeleteCache ==
  /\ COMPILED_FILE \in DOMAIN fs
  /\ fs' = Remove(fs, COMPILED_FILE)
  /\ last_call' = NoCall
  /\ UNCHANGED <<compiled_cache_dir, cache_writable, clock, result, ctxVars, procs, parserVars, commandVars>>

\* the cache volume starts or stops refusing writes
SetCacheWritable(writable) ==
  /\ cache_writable # writable
  /\ cache_writable' = writable
  /\ last_call' = NoCall
  /\ UNCHANGED <<compiled_cache_dir, fs, clock, result, ctxVars, procs, parserVars, commandVars>>

\* TemplateMetadata(template_path, compiled_cache_dir)
\*   .get_compiled_content(source_file)
GetCompiledContentAction(template_path, source_file) ==
  \E out \in {GetCompiledContent(fs, compiled_cache_dir, template_path, source_file,
                                 cache_writable, clock)} :
      /\ fs' = out.files
      /\ result' = out.result
      /\ last_call' = [template |-> template_path, source |-> source_file,
                       pre |-> fs, post |-> out.files,
                       time |-> clock, writable |-> cache_writable,
                       served |-> out.served,
                       prior |-> IF /\ last_call.template = template_path
                                    /\ last_call.source = source_file
                                    /\ last_call.post = fs
                                    /\ last_call.writable = cache_writable
                                    /\ ~last_call.crashed
                                 THEN result ELSE NoResult,
                       crashed |-> FALSE,
                       after_crash |-> /\ last_call.template = template_path
                                       /\ last_call.source = source_file
                                       /\ last_call.post = fs
                                       /\ last_call.crashed]
      /\ UNCHANGED <<compiled_cache_dir, cache_writable, clock, ctxVars, procs, parserVars, commandVars>>

\* the same call in a process that dies in compiled_file.write_text, with k
\* characters of the compiled content on disk: nothing is returned
CrashDuringWrite(template_path, source_file, k) ==
  \E compiled_file \in {CompiledFilePath(compiled_cache_dir, template_path, source_file)}
                       \ {NoPath} :
    \E out \in {GetCompiledContent(fs, compiled_cache_dir, template_path, source_file,
                                   cache_writable, clock)} :
      /\ out.result.status = "ok"
      /\ ~out.served
      /\ k \in 0..Len(out.result.content)
      /\ WriteCache(fs, compiled_file, out.result.content, cache_writable, clock)
           = Put(fs, compiled_file, FileOf(out.result.content, clock, TRUE))
      /\ fs' = WriteCachePartly(fs, compiled_file, out.result.content,
                                cache_writable, clock, k)
      /\ result' = NoResult
      /\ last_call' = [NoCall EXCEPT !.template = template_path,
                                     !.source = source_file,
                                     !.pre = fs, !.post = fs', !.time = clock,
                                     !.writable = cache_writable,
                                     !.crashed = TRUE]
      /\ UNCHANGED <<compiled_cache_dir, cache_writable, clock, ctxVars, procs, parserVars, commandVars>>

\* the most characters on disk when a write is cut short
MaxCut == 1

NextCache ==
  \/ Tick
  \/ \E content \in SourceContents, mtime \in 0..clock :
       EditSource(SOURCE_FILE, content, mtime)
  \/ \E path \in SourceFiles : DeleteSource(path)
  \/ \E path \in {SOURCE_FILE, COMPILED_FILE}, readable \in BOOLEAN :
       Chmod(path, readable)
  \/ CorruptCache
  \/ DeleteCache
  \/ \E writable \in BOOLEAN : SetCacheWritable(writable)
  \/ \E template_path \in TemplatePaths, source_file \in SourceFiles :
       GetCompiledContentAction(template_path, source_file)
  \/ \E template_path \in TemplatePaths, source_file \in SourceFiles, k \in 0..MaxCut :
       CrashDuringWrite(template_path, source_file, k)

SpecCache == InitCache /\ [][NextCache]_vars

(***************************************************************************)
(* Claims about the compiled-template cache.  They read the record of the  *)
(* last call, kept until the files next change: the files before and after *)
(* it, the clock at the call, and, when the call before it was for the     *)
(* same file with nothing but time passing in between, what that gave.     *)
(***************************************************************************)
CallMade == last_call.source # NoPath /\ ~last_call.crashed

\* the cache entry of the file the last call asked for
EntryOf == CompiledFilePath(compiled_cache_dir, last_call.template, last_call.source)

\* a text file that can be read
Servable(file) == file.readable /\ file.content # InvalidUtf8

\* the entry exists, is at least as new as the source, and can be read
HitCondition(files, source_file, entry) ==
  /\ entry # NoPath
  /\ entry \in DOMAIN files
  /\ source_file \in DOMAIN files
  /\ files[entry].mtime >= files[source_file].mtime
  /\ Servable(files[entry])

GetCompiledContentNeverRaises == result.status # "raise"

\* what compile_template gives for a file that is there: the compiled form
\* of its text, "" when it cannot be read or decoded
CompiledFormOf(file) ==
  Returned(IF Servable(file) THEN Compile(file.content) ELSE <<>>)

\* the entry is there and at least as new as the source
FreshByMtime(files, source_file, entry) ==
  /\ entry # NoPath
  /\ entry \in DOMAIN files
  /\ source_file \in DOMAIN files
  /\ files[entry].mtime >= files[source_file].mtime

\* C11 as stated: when the cache entry is fresh by mtime but cannot be read
\* or decoded, the call returns the compiled form of the source and rewrites
\* the entry with exactly that content, so that the next call is served from
\* a readable entry with the same content.
CorruptCacheRecovery ==
  ( /\ CallMade
    /\ FreshByMtime(last_call.pre, last_call.source, EntryOf)
    /\ ~Servable(last_call.pre[EntryOf]) )
  => /\ result = CompiledFormOf(last_call.pre[last_call.source])
     /\ HitCondition(last_call.post, last_call.source, EntryOf)
     /\ last_call.post[EntryOf].content = result.content

\* C11 as amended: when the cache entry is fresh by mtime but cannot be
\* decoded, and the entry can be written, the call returns the compiled form
\* of the source and rewrites the entry with exactly that content, so that
\* the next call is served from a readable entry with the same content.
UndecodableCacheRecovery ==
  ( /\ CallMade
    /\ FreshByMtime(last_call.pre, last_call.source, EntryOf)
    /\ last_call.pre[EntryOf].readable
    /\ last_call.pre[EntryOf].content = InvalidUtf8
    /\ last_call.writable )
  => /\ result = CompiledFormOf(last_call.pre[last_call.source])
     /\ HitCondition(last_call.post, last_call.source, EntryOf)
     /\ last_call.post[EntryOf] = FileOf(result.content, last_call.time, TRUE)

\* an undecodable entry, fresh by mtime, was replaced by the compiled form of
\* the source, which the call returned
UndecodableCacheRecoveryWitness ==
  /\ CallMade
  /\ FreshByMtime(last_call.pre, last_call.source, EntryOf)
  /\ last_call.pre[EntryOf].readable
  /\ last_call.pre[EntryOf].content = InvalidUtf8
  /\ last_call.writable
  /\ result = Returned(Compile(TEXT_ENHANCED))
  /\ last_call.post[EntryOf].content = Compile(TEXT_ENHANCED)

\* the write of the last call was refused
WriteRefused ==
  \/ ~last_call.writable
  \/ EntryOf \in DOMAIN last_call.pre /\ ~last_call.pre[EntryOf].readable

CrashNeverServesPartialEntry ==
  ( /\ CallMade
    /\ last_call.after_crash
    /\ last_call.source \in DOMAIN last_call.pre )
  => result = CompiledFormOf(last_call.pre[last_call.source])

\* C15: two distinct template directories sharing one cache root never
\* alias: a call for the file of one template never returns content compiled
\* from the other template's file at the same relative path.
TemplatesNeverAlias ==
  /\ ( /\ CallMade
       /\ last_call.template = TEMPLATE_PATH
       /\ last_call.source = SOURCE_FILE
       /\ result.status = "ok" )
     => result.content # Compile(TEXT_LOCAL)
  /\ ( /\ CallMade
       /\ last_call.template = LOCAL_TEMPLATE_PATH
       /\ last_call.source = OUTSIDE_FILE
       /\ result.status = "ok" )
     => result.content \notin {Compile(text) : text \in SourceTexts}

\* C16: with no cache root, or for a source outside the template directory,
\* the call compiles directly from the source and neither serves nor writes
\* any cache file.
NoCacheRootNoCacheFile ==
  ( /\ CallMade
    /\ \/ compiled_cache_dir = NoPath
       \/ ~StartsWith(last_call.source, last_call.template) )
  => /\ ~last_call.served
     /\ last_call.post = last_call.pre
     /\ last_call.source \in DOMAIN last_call.pre
          => result = CompiledFormOf(last_call.pre[last_call.source])

\* a file outside the template directory was compiled, with a cache root
\* configured and an entry of that file name in it, which stayed as it was
NoCacheRootNoCacheFileWitness ==
  /\ CallMade
  /\ compiled_cache_dir # NoPath
  /\ last_call.template = TEMPLATE_PATH
  /\ last_call.source = OUTSIDE_FILE
  /\ COMPILED_FILE \in DOMAIN last_call.pre
  /\ last_call.pre[COMPILED_FILE].content = Compile(TEXT_ENHANCED)
  /\ result = Returned(Compile(TEXT_LOCAL))
  /\ last_call.post = last_call.pre

(***************************************************************************)
(* Two processes in get_compiled_content for the same source file and the  *)
(* same cache root.  Each goes through the steps of the call that touch    *)
(* the files: the validity check, the read of the entry, and the write,    *)
(* which write_text does as open(..., 'w') and then write.                 *)
(***************************************************************************)
NumProcs == 2

\* the processes
Procs == 1..NumProcs

\* the source is there and readable; the entry is absent, older than the
\* source, fresh, or fresh and undecodable; every process is about to call
InitRace ==
  /\ ContextIdle
  /\ ParserIdle
  /\ CommandIdle
  /\ compiled_cache_dir = CACHE_DIR
  /\ cache_writable = TRUE
  /\ clock = 1
  /\ result = NoResult
  /\ last_call = NoCall
  /\ \E content \in SourceTexts :
       \E entry \in {FileOf(Compile(content), 1, TRUE), FileOf(InvalidUtf8, 1, TRUE)}
                    \cup {FileOf(Compile(old), 0, TRUE) : old \in SourceTexts \ {content}} :
         \E cached \in BOOLEAN :
           fs = IF cached
                  THEN (SOURCE_FILE :> FileOf(content, 1, TRUE)) @@ (COMPILED_FILE :> entry)
                  ELSE (SOURCE_FILE :> FileOf(content, 1, TRUE))
  /\ procs = [p \in Procs |-> [pc |-> "check", compiled |-> <<>>, ret |-> NoResult]]

\* if compiled_file and self._is_cache_valid(source_file, compiled_file)
RaceCheck(p) ==
  /\ procs[p].pc = "check"
  /\ \E check \in {IsCacheValid(fs, SOURCE_FILE, COMPILED_FILE)} :
       procs' = [procs EXCEPT ![p].pc = IF check.valid THEN "read" ELSE "compile"]
  /\ UNCHANGED <<cacheVars, ctxVars, parserVars, commandVars>>

\* return compiled_file.read_text(encoding='utf-8'), or on to the compile
\* when the read raises
RaceRead(p) ==
  /\ procs[p].pc = "read"
  /\ \E cached \in {ReadText(fs, COMPILED_FILE)} :
       procs' = IF cached.error = "none"
                  THEN [procs EXCEPT ![p].pc = "done", ![p].ret = Returned(cached.text)]
                  ELSE [procs EXCEPT ![p].pc = "compile"]
  /\ UNCHANGED <<cacheVars, ctxVars, parserVars, commandVars>>

\* compiled_content = compile_template(source_file), mkdir, and the open of
\* write_text, which creates the entry or truncates it
RaceCompile(p) ==
  /\ procs[p].pc = "compile"
  /\ \E compiled \in {CompileTemplate(fs, SOURCE_FILE)} :
       procs' = [procs EXCEPT ![p].pc = "write", ![p].compiled = compiled.content]
  /\ fs' = WriteCache(fs, COMPILED_FILE, <<>>, cache_writable, clock)
  /\ UNCHANGED <<compiled_cache_dir, cache_writable, clock, result, last_call,
                 ctxVars, parserVars, commandVars>>

\* the write of write_text, and return compiled_content
RaceWrite(p) ==
  /\ procs[p].pc = "write"
  /\ fs' = WriteCache(fs, COMPILED_FILE, procs[p].compiled, cache_writable, clock)
  /\ procs' = [procs EXCEPT ![p].pc = "done", ![p].ret = Returned(procs[p].compiled)]
  /\ UNCHANGED <<compiled_cache_dir, cache_writable, clock, result, last_call,
                 ctxVars, parserVars, commandVars>>

NextRace ==
  \/ Tick
  \/ \E p \in Procs : RaceCheck(p)
  \/ \E p \in Procs : RaceRead(p)
  \/ \E p \in Procs : RaceCompile(p)
  \/ \E p \in Procs : RaceWrite(p)

SpecRace == InitRace /\ [][NextRace]_vars

\* C14: with two processes in get_compiled_content for the same source and
\* the same cache root, under every interleaving of their check, read and
\* write steps, each call returns exactly the compiled content of the source.
ConcurrentCallsReturnCompiledContent ==
  \A p \in DOMAIN procs :
    procs[p].pc = "done" => procs[p].ret = CompiledFormOf(fs[SOURCE_FILE])

(***************************************************************************)
(* TemplateHintParser: the scan of the template files for variables.       *)
(* A TemplateVariable is [name, help_text, sort_order, regex_pattern,      *)
(* default_value, locations, is_enhanced]; regex_pattern and default_value *)
(* are None or a str; a location is <<file, line number>>.                 *)
(***************************************************************************)
MaxFiles == 2

\* PLAIN_PATTERN.match(text, i - 1): the match starting at index i
PlainMatchAt(text, i) ==
  LET Fail == [ok |-> FALSE, end |-> 0, name |-> <<>>, help |-> <<>>,
               sort |-> <<>>, pattern |-> <<>>]
      close[a \in Nat, e \in Nat, w \in Nat] ==
        IF At(text, w) = "}" /\ At(text, w + 1) = "}"
          THEN [ok |-> TRUE, end |-> w + 2, name |-> SubSeq(text, a, e - 1),
                help |-> <<>>, sort |-> <<>>, pattern |-> <<>>]
          ELSE Fail
      spaces[a \in Nat, e \in Nat] == close[a, e, RunEnd(text, e, IsSpace)]
      name[a \in Nat] ==
        IF IsIdentStart(At(text, a))
          THEN spaces[a, RunEnd(text, a + 1, IsIdentChar)]
          ELSE Fail
  IN  IF At(text, i) = "{" /\ At(text, i + 1) = "{"
        THEN name[RunEnd(text, i + 2, IsSpace)]
        ELSE Fail

\* pattern.finditer(line): the matches from left to right, none overlapping;
\* M gives the match of the pattern at an index
FindIter(line, M(_, _)) ==
  LET from[i \in 1..(Len(line) + 1)] ==
        LET step(m) == IF m.ok THEN <<m>> \o from[m.end] ELSE from[i + 1]
        IN  IF i > Len(line) THEN <<>> ELSE step(M(line, i))
  IN  from[1]

\* _parse_file, for one enhanced match: sort_order, regex_pattern, and the
\* help text and default value cut out of the third group
HintOf(m) ==
  LET stripped == Strip(m.help)
      cut == CHOOSE i \in DOMAIN stripped \cup {0} :
               /\ i > 0 => stripped[i] = "="
               /\ \A j \in DOMAIN stripped : stripped[j] = "=" => j <= i /\ i > 0
  IN  [sort_order    |-> IF m.sort # <<>> THEN PyInt(m.sort) ELSE 999,
       regex_pattern |-> IF m.pattern # <<>> THEN StrV(m.pattern) ELSE NoneV,
       help_text     |-> IF cut > 0 THEN Strip(SubSeq(stripped, 1, cut - 1)) ELSE stripped,
       default_value |-> IF cut > 0 THEN StrV(Strip(DropFirst(stripped, cut))) ELSE NoneV]

\* the mutant of AddVariable that leaves a stored plain descriptor plain
AddVariableNoUpgrade(vars_, var_name, hint, location, is_enhanced) ==
  IF var_name \in DOMAIN vars_
    THEN [vars_ EXCEPT ![var_name].locations = Append(@, location)]
    ELSE Put(vars_, var_name,
             [name |-> var_name, help_text |-> hint.help_text,
              sort_order |-> hint.sort_order, regex_pattern |-> hint.regex_pattern,
              default_value |-> hint.default_value, locations |-> <<location>>,
              is_enhanced |-> is_enhanced])

\* the mutant of AddVariable in which every enhanced occurrence overwrites the
\* four fields
AddVariableLastWins(vars_, var_name, hint, location, is_enhanced) ==
  IF var_name \in DOMAIN vars_
    THEN IF is_enhanced
           THEN [vars_ EXCEPT ![var_name].locations = Append(@, location),
                              ![var_name].help_text = hint.help_text,
                              ![var_name].sort_order = hint.sort_order,
                              ![var_name].regex_pattern = hint.regex_pattern,
                              ![var_name].default_value = hint.default_value,
                              ![var_name].is_enhanced = TRUE]
           ELSE [vars_ EXCEPT ![var_name].locations = Append(@, location)]
    ELSE Put(vars_, var_name,
             [name |-> var_name, help_text |-> hint.help_text,
              sort_order |-> hint.sort_order, regex_pattern |-> hint.regex_pattern,
              default_value |-> hint.default_value, locations |-> <<location>>,
              is_enhanced |-> is_enhanced])

\* TemplateHintParser._add_variable: self.variables afterwards
AddVariable(vars_, var_name, hint, location, is_enhanced) ==
  IF var_name \in DOMAIN vars_
    THEN IF is_enhanced /\ ~vars_[var_name].is_enhanced
           THEN [vars_ EXCEPT ![var_name].locations = Append(@, location),
                              ![var_name].help_text = hint.help_text,
                              ![var_name].sort_order = hint.sort_order,
                              ![var_name].regex_pattern = hint.regex_pattern,
                              ![var_name].default_value = hint.default_value,
                              ![var_name].is_enhanced = TRUE]
           ELSE [vars_ EXCEPT ![var_name].locations = Append(@, location)]
    ELSE Put(vars_, var_name,
             [name |-> var_name, help_text |-> hint.help_text,
              sort_order |-> hint.sort_order, regex_pattern |-> hint.regex_pattern,
              default_value |-> hint.default_value, locations |-> <<location>>,
              is_enhanced |-> is_enhanced])

\* the body of the loop of _parse_file for one line: the enhanced matches
\* first, then the plain ones, which are skipped for a name whose descriptor
\* is enhanced
ParseLine(vars_, file_path, line_number, line) ==
  LET plainHint == [help_text |-> <<>>, sort_order |-> 999,
                    regex_pattern |-> NoneV, default_value |-> NoneV]
      add(v, m, hint, is_enhanced) ==
        IF is_enhanced \/ m.name \notin DOMAIN v \/ ~v[m.name].is_enhanced
          THEN AddVariable(v, m.name, hint, <<file_path, line_number>>, is_enhanced)
          ELSE v
      pass(start, matches, is_enhanced) ==
        LET after[k \in 0..Len(matches)] ==
              IF k = 0 THEN start
              ELSE add(after[k - 1], matches[k],
                       IF is_enhanced THEN HintOf(matches[k]) ELSE plainHint,
                       is_enhanced)
        IN  after[Len(matches)]
      plain(v) == pass(v, FindIter(line, PlainMatchAt), FALSE)
  IN  plain(pass(vars_, FindIter(line, MatchAt), TRUE))

\* TemplateHintParser._parse_file: self.variables afterwards; a file that
\* cannot be decoded is passed over
ParseFile(vars_, file_path, content) ==
  LET lines == Split(content, "\n")
      after[n \in 0..Len(lines)] ==
        IF n = 0 THEN vars_ ELSE ParseLine(after[n - 1], file_path, n, lines[n])
  IN  IF content = InvalidUtf8 THEN vars_ ELSE after[Len(lines)]

\* the lines a scanned file is made of: a plain placeholder, two enhanced
\* ones of the same name with different hints, and a line that holds a plain
\* placeholder followed by an enhanced one of a second name
LineTexts ==
  { Compile(TEXT_ENHANCED),
    TEXT_ENHANCED,
    <<"{","{"," ","@","@","(","x",")","|","g","@","@","a"," ","}","}">>,
    <<"{","{","b","}","}","{","{"," ","@","@","h","@","@","b"," ","}","}">> }

\* what a scanned file holds: one line, two lines, an enhanced placeholder
\* whose help text runs over the end of a line, or bytes that do not decode
FileContents ==
  LineTexts \cup {Join(<<l1, l2>>, "\n") : l1 \in LineTexts, l2 \in LineTexts}
    \cup {<<"{","{"," ","@","@","h","\n","@","@","c"," ","}","}">>}
    \cup {InvalidUtf8}

\* a second file of the template
SETTINGS_FILE == TEMPLATE_PATH \o <<"settings.gradle.kts">>

\* TemplateHintParser.__init__: no variable yet
InitScan ==
  /\ ContextIdle
  /\ CacheIdle
  /\ procs = <<>>
  /\ CommandIdle
  /\ ParserIdle

\* one call of _parse_file by parse_templates
ParseFileAction(file_path, content) ==
  /\ Len(scanned) < MaxFiles
  /\ \E out \in {ParseFile(variables, file_path, content)} : variables' = out
  /\ scanned' = Append(scanned, [path |-> file_path, content |-> content])
  /\ UNCHANGED <<ctxVars, cacheVars, procs, document, previous, passes, commandVars>>

NextScan ==
  \E file_path \in {SOURCE_FILE, SETTINGS_FILE}, content \in FileContents :
    ParseFileAction(file_path, content)

SpecScan == InitScan /\ [][NextScan]_vars

\* the occurrences in one line of the file scanned as number k: every match
\* of the enhanced pattern, then every match of the plain pattern
LineOccurrences(k, n, line) ==
  LET of(matches, is_enhanced) ==
        {[file |-> k, path |-> scanned[k].path, line |-> n, enhanced |-> is_enhanced,
          index |-> j, match |-> matches[j]] : j \in DOMAIN matches}
  IN  of(FindIter(line, MatchAt), TRUE) \cup of(FindIter(line, PlainMatchAt), FALSE)

\* every occurrence in the files scanned so far
ScannedOccurrences ==
  LET lines(content) == IF content = InvalidUtf8 THEN <<>> ELSE Split(content, "\n")
      inFile(k, ls) == UNION {LineOccurrences(k, n, ls[n]) : n \in DOMAIN ls}
  IN  UNION {inFile(k, lines(scanned[k].content)) : k \in DOMAIN scanned}

\* o1 is scanned before o2
ScannedBefore(o1, o2) ==
  \/ o1.file < o2.file
  \/ o1.file = o2.file /\ o1.line < o2.line
  \/ o1.file = o2.file /\ o1.line = o2.line /\ o1.enhanced /\ ~o2.enhanced
  \/ /\ o1.file = o2.file /\ o1.line = o2.line /\ o1.enhanced = o2.enhanced
     /\ o1.index < o2.index

OccurrencesOf(var_name) == {o \in ScannedOccurrences : o.match.name = var_name}

EnhancedOccurrencesOf(var_name) == {o \in OccurrencesOf(var_name) : o.enhanced}

\* a descriptor is there for exactly the names that occur, and is enhanced
\* exactly when an enhanced occurrence of its name was scanned
EnhancedIffScanned ==
  /\ DOMAIN variables = {o.match.name : o \in ScannedOccurrences}
  /\ \A var_name \in DOMAIN variables :
       variables[var_name].is_enhanced <=> EnhancedOccurrencesOf(var_name) # {}

\* a step leaves every enhanced descriptor enhanced
StaysEnhanced ==
  \A var_name \in DOMAIN variables :
    variables[var_name].is_enhanced
      => var_name \in DOMAIN variables' /\ variables'[var_name].is_enhanced

\* C17: per variable name the registry is a one-way machine {Plain,
\* Enhanced}: a descriptor that is enhanced is never plain again, and a
\* descriptor is enhanced exactly when at least one enhanced occurrence of
\* its name has been scanned.
EnhancedIsOneWay == [](EnhancedIffScanned) /\ [][StaysEnhanced]_vars

\* a name was scanned plain, then enhanced, then plain again, and its
\* descriptor is enhanced
EnhancedIsOneWayWitness ==
  \E var_name \in DOMAIN variables :
    /\ variables[var_name].is_enhanced
    /\ \E e \in EnhancedOccurrencesOf(var_name) :
         /\ \E o \in OccurrencesOf(var_name) : ~o.enhanced /\ ScannedBefore(o, e)
         /\ \E o \in OccurrencesOf(var_name) : ~o.enhanced /\ o.file > e.file

\* C18: the help text, sort order, pattern and default of a descriptor are
\* those of the first enhanced occurrence of its name in scan order, and the
\* plain defaults (empty help, 999, no pattern, no default) when there is
\* none.
FieldsOfFirstEnhanced ==
  \A var_name \in DOMAIN variables :
    LET enhanced == EnhancedOccurrencesOf(var_name)
        fields == [help_text     |-> variables[var_name].help_text,
                   sort_order    |-> variables[var_name].sort_order,
                   regex_pattern |-> variables[var_name].regex_pattern,
                   default_value |-> variables[var_name].default_value]
    IN  IF enhanced = {}
          THEN fields = [help_text |-> <<>>, sort_order |-> 999,
                         regex_pattern |-> NoneV, default_value |-> NoneV]
          ELSE \E first \in enhanced :
                 /\ \A o \in enhanced \ {first} : ScannedBefore(first, o)
                 /\ fields = HintOf(first.match)

\* a name was scanned plain, then enhanced with pattern x and help g, then
\* enhanced with sort 01, help h and default 1: the descriptor holds the
\* fields of the first of the two
FieldsOfFirstEnhancedWitness ==
  /\ <<"a">> \in DOMAIN variables
  /\ Cardinality(EnhancedOccurrencesOf(<<"a">>)) = 2
  /\ \E o \in OccurrencesOf(<<"a">>) :
       ~o.enhanced /\ \A e \in EnhancedOccurrencesOf(<<"a">>) : ScannedBefore(o, e)
  /\ \E e \in EnhancedOccurrencesOf(<<"a">>) : e.match.sort = <<"0", "1">> /\ e.file = 2
  /\ variables[<<"a">>].help_text = <<"g">>
  /\ variables[<<"a">>].sort_order = 999
  /\ variables[<<"a">>].regex_pattern = StrV(<<"x">>)
  /\ variables[<<"a">>].default_value = NoneV

\* C19: every scanned occurrence of a name, plain or enhanced, appends its
\* (file, line) to the location list of the descriptor: the list has one
\* entry per occurrence.
OneLocationPerOccurrence ==
  \A var_name \in DOMAIN variables :
    /\ Len(variables[var_name].locations) = Cardinality(OccurrencesOf(var_name))
    /\ \A o \in OccurrencesOf(var_name) :
         \E i \in DOMAIN variables[var_name].locations :
           variables[var_name].locations[i] = <<o.path, o.line>>

(***************************************************************************)
(* compile_template applied again to what it returned.  The texts are made *)
(* of the pieces of enhanced placeholders.                                 *)
(***************************************************************************)
MaxTokens == 5

MaxPasses == 2

\* the pieces: a plain placeholder, the opening of an enhanced placeholder,
\* a help text, and the closing with the variable name a or b
Tokens ==
  { <<"{", "{", "c", "}", "}">>,
    <<"{", "{", " ", "@", "@">>,
    <<"h">>,
    <<"@", "@", "a", " ", "}", "}">>,
    <<"@", "@", "b", " ", "}", "}">> }

\* ''.join(parts)
RECURSIVE Concat(_)
Concat(parts) == IF parts = <<>> THEN <<>> ELSE Head(parts) \o Concat(Tail(parts))

\* the content of a template file, before any pass
InitCompile ==
  /\ ContextIdle
  /\ CacheIdle
  /\ procs = <<>>
  /\ CommandIdle
  /\ variables = <<>>
  /\ scanned = <<>>
  /\ \E n \in 0..MaxTokens : \E parts \in [1..n -> Tokens] : document = Concat(parts)
  /\ previous = <<>>
  /\ passes = 0

\* compile_template on the text the last pass returned
CompilePass ==
  /\ passes < MaxPasses
  /\ \E out \in {Compile(document)} : document' = out
  /\ previous' = document
  /\ passes' = passes + 1
  /\ UNCHANGED <<ctxVars, cacheVars, procs, variables, scanned, commandVars>>

NextCompile == CompilePass

SpecCompile == InitCompile /\ [][NextCompile]_vars

\* C20: compile is a fixed point after one application: a second pass
\* returns what the first pass returned.
CompileFixedPoint == passes >= 2 => document = previous

\* where the enhanced placeholders of a text start: the matches of the
\* enhanced pattern from left to right, none overlapping
PlaceholderStarts(content) ==
  LET from[i \in 1..(Len(content) + 1)] ==
        LET step(m) == IF m.ok THEN {i} \cup from[m.end] ELSE from[i + 1]
        IN  IF i > Len(content) THEN {} ELSE step(MatchAt(content, i))
  IN  from[1]

\* no "@@" in the text
NoHintMarker(content) ==
  \A i \in 1..(Len(content) - 1) : ~(content[i] = "@" /\ content[i + 1] = "@")

\* compiled is content with every enhanced placeholder turned into
\* '{{ name }}' and every other character where it was, moved only by what
\* the placeholders before it grew or shrank
StrippedExactly(content, compiled) ==
  LET starts == PlaceholderStarts(content)
      found == [j \in starts |-> MatchAt(content, j)]
      grow == [j \in starts |-> (Len(found[j].name) + 6) - (found[j].end - j)]
      shift == [i \in 1..(Len(content) + 1) |-> SumOver(grow, {j \in starts : j < i})]
      inside(i) == \E j \in starts : j <= i /\ i < found[j].end
  IN  /\ Len(compiled) = Len(content) + SumOver(grow, starts)
      /\ \A i \in DOMAIN content : ~inside(i) => compiled[i + shift[i]] = content[i]
      /\ \A j \in starts :
           SubSeq(compiled, j + shift[j], j + shift[j] + Len(found[j].name) + 5)
             = <<"{", "{", " ">> \o found[j].name \o <<" ", "}", "}">>

\* every "@@" of the text is part of an enhanced placeholder
MarkersOnlyInPlaceholders(content) ==
  LET starts == PlaceholderStarts(content)
      inside(i) == \E j \in starts : j <= i /\ i < MatchAt(content, j).end
  IN  \A i \in 1..(Len(content) - 1) :
        content[i] = "@" /\ content[i + 1] = "@" => inside(i) /\ inside(i + 1)

\* C21 as stated: for any text the result of compile holds no "@@", every
\* enhanced placeholder has become exactly '{{ name }}', and plain
\* placeholders and all other text are as they were.
StrippingCompleteness ==
  passes >= 1 => NoHintMarker(document) /\ StrippedExactly(previous, document)

\* C21 as amended: for any text, every enhanced placeholder becomes exactly
\* '{{ name }}' and plain placeholders and all other text are as they were;
\* the result holds no "@@" when every "@@" of the text is part of an
\* enhanced placeholder.
StrippingOfPlaceholders ==
  passes >= 1
    => /\ StrippedExactly(previous, document)
       /\ MarkersOnlyInPlaceholders(previous) => NoHintMarker(document)

\* a text with a plain placeholder and an enhanced one, and no other "@@",
\* was compiled
StrippingOfPlaceholdersWitness ==
  /\ passes = 1
  /\ previous = <<"{","{","c","}","}", "{","{"," ","@","@", "h", "@","@","a"," ","}","}">>
  /\ document = <<"{","{","c","}","}", "{","{"," ","a"," ","}","}">>

\* C27: in single-process use, after any sequence of source edits and
\* calls, whatever mtime an edit leaves on the source, each call returns the
\* compiled form of the source's content at the time of the call, and an
\* entry it writes holds that content.  (The entry found, if any, is one an
\* earlier call wrote for this source.)
SingleProcessCoherence ==
  ( /\ CallMade
    /\ last_call.template = TEMPLATE_PATH
    /\ last_call.source = SOURCE_FILE
    /\ EntryOf # NoPath
    /\ last_call.writable
    /\ SOURCE_FILE \in DOMAIN last_call.pre
    /\ Servable(last_call.pre[SOURCE_FILE])
    /\ EntryOf \in DOMAIN last_call.pre
         => /\ Servable(last_call.pre[EntryOf])
            /\ last_call.pre[EntryOf].content \in {Compile(t) : t \in SourceTexts} )
  => /\ result = CompiledFormOf(last_call.pre[SOURCE_FILE])
     /\ ( /\ EntryOf \in DOMAIN last_call.post
          /\ EntryOf \in DOMAIN last_call.pre
               => last_call.post[EntryOf] # last_call.pre[EntryOf] )
        => last_call.post[EntryOf].content = result.content

\* C30: a call for a source file creates or rewrites at most the cache entry
\* of that file and leaves every other file as it was; no call removes a
\* file, so an entry whose source was modified or removed stays.
LazyInvalidationNoSweep ==
  last_call.source # NoPath
    => /\ \A p \in DOMAIN last_call.pre :
            /\ p \in DOMAIN last_call.post
            /\ p # EntryOf => last_call.post[p] = last_call.pre[p]
       /\ DOMAIN last_call.post \subseteq DOMAIN last_call.pre \cup {EntryOf}

\* a call rewrote the stale entry of its file; the entry of the file that is
\* gone is still there, as it was
LazyInvalidationNoSweepWitness ==
  /\ CallMade
  /\ last_call.source = SOURCE_FILE
  /\ EntryOf = COMPILED_FILE
  /\ COMPILED_FILE \in DOMAIN last_call.pre
  /\ last_call.pre[COMPILED_FILE].content = Compile(TEXT_ENHANCED)
  /\ last_call.post[COMPILED_FILE].content = Compile(TEXT_EDITED)
  /\ ORPHAN_ENTRY \in DOMAIN last_call.post
  /\ last_call.post[ORPHAN_ENTRY] = FileOf(Compile(TEXT_EDITED), 0, TRUE)

\* C29: the parser and the compiler recognise the same enhanced
\* placeholders: every placeholder of a scanned file that compile_template
\* rewrites to '{{ name }}' is recorded by _parse_file as an enhanced
\* occurrence of name in that file.
ParserRecordsWhatCompilerRewrites ==
  \A k \in DOMAIN scanned :
    scanned[k].content # InvalidUtf8
      => \A j \in PlaceholderStarts(scanned[k].content) :
           \E o \in EnhancedOccurrencesOf(MatchAt(scanned[k].content, j).name) :
             /\ o.file = k
             /\ MatchAt(scanned[k].content, j).name \in DOMAIN variables
             /\ variables[MatchAt(scanned[k].content, j).name].is_enhanced

(***************************************************************************)
(* Regular expressions, as far as the patterns of the model go: literal    *)
(* characters, "|" between alternatives, and the two characters that make  *)
(* a pattern malformed when nothing closes them, "[" and "(".  A hint      *)
(* pattern never holds ")" (MatchAt stops the pattern at the first one).   *)
(***************************************************************************)
\* re.compile(f"^{pattern}$") does not raise re.error
ReCompiles(pattern) == ~Contains(pattern, "[") /\ ~Contains(pattern, "(")

\* str(n), for n >= 0
RECURSIVE DecimalOf(_)
DecimalOf(n) ==
  IF n < 10 THEN <<Digits[n + 1]>> ELSE DecimalOf(n \div 10) \o <<Digits[(n % 10) + 1]>>

MSG_UNTERMINATED_SET ==
  <<"u","n","t","e","r","m","i","n","a","t","e","d"," ","c","h","a","r","a",
    "c","t","e","r"," ","s","e","t"," ","a","t"," ","p","o","s","i","t","i",
    "o","n"," ">>

MSG_MISSING_PAREN ==
  <<"m","i","s","s","i","n","g"," ",")",","," ","u","n","t","e","r","m","i",
    "n","a","t","e","d"," ","s","u","b","p","a","t","t","e","r","n"," ","a",
    "t"," ","p","o","s","i","t","i","o","n"," ">>

\* str(e) of the re.error that compiling f"^{pattern}$" raises: the set that
\* the first "[" opens swallows the rest of the pattern; without one, the
\* innermost open group is the last "(".  Positions count the leading "^".
ReErrorText(pattern) ==
  IF Contains(pattern, "[")
    THEN MSG_UNTERMINATED_SET \o DecimalOf(IndexOf(pattern, "["))
    ELSE MSG_MISSING_PAREN
           \o DecimalOf(CHOOSE i \in DOMAIN pattern :
                          pattern[i] = "(" /\ \A j \in DOMAIN pattern : pattern[j] = "(" => j <= i)

\* re.match(f"^{pattern}$", value) finds a match, for a pattern that compiles.
\* "|" binds weaker than the anchors: "^" belongs to the first alternative
\* and "$" to the last, and every alternative is tried at the start of the
\* value; "$" also matches before one final newline.
ReMatch(pattern, value) ==
  LET alts == Split(pattern, "|")
      n == Len(alts)
      ends(a) == value = a \/ value = a \o <<"\n">>
  IN  \E i \in 1..n : IF i = n THEN ends(alts[i]) ELSE StartsWith(value, alts[i])

(***************************************************************************)
(* The validation helpers.                                                 *)
(***************************************************************************)
MSG_VALUE ==
  <<"V","a","l","u","e"," ","'">>

MSG_NO_MATCH ==
  <<"'"," ","d","o","e","s"," ","n","o","t"," ","m","a","t","c","h"," ","p",
    "a","t","t","e","r","n",":"," ">>

MSG_HELP ==
  <<"\n"," "," ","H","e","l","p",":"," ">>

MSG_ARGUMENT ==
  <<"A","r","g","u","m","e","n","t"," ","'","-","-">>

MSG_ARG_SEP ==
  <<"'",":"," ">>

MSG_INVALID_PATTERN ==
  <<"I","n","v","a","l","i","d"," ","r","e","g","e","x"," ","p","a","t","t",
    "e","r","n",":"," ">>

\* str(value), for the values a parsed command line holds for a hint
PyStr(value) ==
  IF value.t = "str" THEN value.s
  ELSE IF value.t = "bool" THEN (IF value.b THEN <<"T","r","u","e">> ELSE <<"F","a","l","s","e">>)
  ELSE IF value.t = "int" THEN (IF value.n < 0 THEN <<"-">> \o DecimalOf(0 - value.n)
                                ELSE DecimalOf(value.n))
  ELSE <<"N","o","n","e">>

\* f"Value '{value}' does not match pattern: {pattern}"
NoMatchMessage(value, pattern) == MSG_VALUE \o value \o MSG_NO_MATCH \o pattern

\* TemplateVariable.validate(value) -> (ok, message)
Validate(var, value) ==
  IF var.regex_pattern = NoneV THEN [ok |-> TRUE, message |-> <<>>]
  ELSE IF ~ReCompiles(var.regex_pattern.s)
    THEN [ok |-> FALSE, message |-> MSG_INVALID_PATTERN \o ReErrorText(var.regex_pattern.s)]
  ELSE IF ReMatch(var.regex_pattern.s, value) THEN [ok |-> TRUE, message |-> <<>>]
  ELSE [ok |-> FALSE, message |-> NoMatchMessage(value, var.regex_pattern.s)]

\* validate_value_against_hint(value, hint) -> (ok, message); warned says
\* that print_warning was called
ValidateValueAgainstHint(value, hint) ==
  IF hint.regex_pattern = NoneV THEN [ok |-> TRUE, message |-> NoneV, warned |-> FALSE]
  ELSE IF ~ReCompiles(hint.regex_pattern.s)
    THEN [ok |-> TRUE, message |-> NoneV, warned |-> TRUE]
  ELSE IF ReMatch(hint.regex_pattern.s, PyStr(value))
    THEN [ok |-> TRUE, message |-> NoneV, warned |-> FALSE]
  ELSE [ok |-> FALSE, warned |-> FALSE,
        message |-> StrV(NoMatchMessage(PyStr(value), hint.regex_pattern.s)
                         \o (IF hint.help_text # <<>> THEN MSG_HELP \o hint.help_text
                             ELSE <<>>))]

\* args.get(name)
Get(args, name) == IF name \in DOMAIN args THEN args[name] ELSE NoneV

\* f"Argument '--{hint.name}': {error_msg}"
ArgumentError(hint, error_msg) == MSG_ARGUMENT \o hint.name \o MSG_ARG_SEP \o error_msg

\* the mutant of validate_cli_args_against_template that returns at the first
\* violation
ValidateCliArgsFirstOnly(args, hints) ==
  LET bad == {i \in DOMAIN hints :
                /\ Get(args, hints[i].name) # NoneV
                /\ ~ValidateValueAgainstHint(Get(args, hints[i].name), hints[i]).ok}
      first == CHOOSE i \in bad : \A j \in bad : i <= j
  IN  IF bad = {} THEN [ok |-> TRUE, errors |-> <<>>]
      ELSE [ok |-> FALSE,
            errors |-> <<ArgumentError(hints[first],
                           ValidateValueAgainstHint(Get(args, hints[first].name),
                                                    hints[first]).message.s)>>]

\* validate_cli_args_against_template(args, hints) -> (all_valid, errors)
ValidateCliArgsAgainstTemplate(args, hints) ==
  LET errors[i \in 0..Len(hints)] ==
        IF i = 0 THEN <<>>
        ELSE LET hint == hints[i]
                 value == Get(args, hint.name)
                 checked == ValidateValueAgainstHint(value, hint)
             IN  IF value = NoneV \/ checked.ok THEN errors[i - 1]
                 ELSE Append(errors[i - 1], ArgumentError(hint, checked.message.s))
  IN  [ok |-> Len(errors[Len(hints)]) = 0, errors |-> errors[Len(hints)]]

\* the code points of the characters of an identifier, in ascending order
IdentChars == Digits \o UpperCase \o <<"_">> \o LowerCase

\* a < b, for two identifiers
RECURSIVE NameLess(_, _)
NameLess(a, b) ==
  IF Len(b) = 0 THEN FALSE
  ELSE IF Len(a) = 0 THEN TRUE
  ELSE IF a[1] = b[1] THEN NameLess(Tail(a), Tail(b))
  ELSE IndexOf(IdentChars, a[1]) < IndexOf(IdentChars, b[1])

\* TemplateHintParser.get_sorted_variables: by (sort_order, name)
RECURSIVE GetSortedVariables(_)
GetSortedVariables(vars_) ==
  IF DOMAIN vars_ = {} THEN <<>>
  ELSE LET before(a, b) == \/ vars_[a].sort_order < vars_[b].sort_order
                           \/ /\ vars_[a].sort_order = vars_[b].sort_order
                              /\ NameLess(a, b)
           least == CHOOSE a \in DOMAIN vars_ : \A b \in DOMAIN vars_ \ {a} : before(a, b)
       IN  <<vars_[least]>> \o GetSortedVariables([k \in DOMAIN vars_ \ {least} |-> vars_[k]])

(***************************************************************************)
(* get_config_default.                                                     *)
(***************************************************************************)
\* the mutant of get_config_default that looks in 'custom' first
GetConfigDefaultCustomFirst(cfg, key, fallback) ==
  IF "custom" \in DOMAIN cfg /\ key \in DOMAIN cfg["custom"] THEN cfg["custom"][key]
  ELSE IF "defaults" \in DOMAIN cfg /\ key \in DOMAIN cfg["defaults"] THEN cfg["defaults"][key]
  ELSE fallback

\* get_config_default(config, key, fallback)
GetConfigDefault(cfg, key, fallback) ==
  IF "defaults" \in DOMAIN cfg /\ key \in DOMAIN cfg["defaults"] THEN cfg["defaults"][key]
  ELSE IF "custom" \in DOMAIN cfg /\ key \in DOMAIN cfg["custom"] THEN cfg["custom"][key]
  ELSE fallback

(***************************************************************************)
(* The init command, run non-interactively: a project name and a template  *)
(* are given, the template is found, --interactive, --help and             *)
(* --select-gradle-version are not passed.                                 *)
(***************************************************************************)
KEY_GRADLE_VERSION ==
  <<"g","r","a","d","l","e","_","v","e","r","s","i","o","n">>

KEY_PROJECT_VERSION ==
  <<"p","r","o","j","e","c","t","_","v","e","r","s","i","o","n">>

KEY_VERSION == <<"v","e","r","s","i","o","n">>

KEY_A == <<"a">>

ENV_GRADLE_VERSION ==
  ENV_PREFIX \o <<"G","R","A","D","L","E","_","V","E","R","S","I","O","N">>

DEFAULT_GRADLE_VERSION == <<"8",".","1","4">>

LATEST == <<"l","a","t","e","s","t">>

\* destinations of the base parser that the command reads, with their
\* defaults
InitDefaults == (KEY_GRADLE_VERSION :> NoneV) @@ (KEY_PROJECT_VERSION :> NoneV)

\* what get_arguments() reads off the registry: name -> default_value
HintDefaults(vars_) == [n \in DOMAIN vars_ |-> vars_[n].default_value]

\* vars(args) as parse_args() returns it
InitNamespace(vars_, md, flags) ==
  Update(InitDefaults, Namespace(HintDefaults(vars_), md, flags))

\* handle_init_command from the validation of the command line to the call
\* of build_context.  latest is what get_latest_gradle_version() returns, a
\* version or None.  generated says that the run went on to the generator.
HandleInitCommand(cfg, env, vars_, md, flags, pairs, t, latest) ==
  LET hints == GetSortedVariables(vars_)
      args == InitNamespace(vars_, md, flags)
      checked == ValidateCliArgsAgainstTemplate(args, hints)
      flag == args[KEY_GRADLE_VERSION]
      configured == GetConfigDefault(cfg, KEY_GRADLE_VERSION, StrV(DEFAULT_GRADLE_VERSION))
      gradle_version ==
        IF flag.t = "str" /\ flag.s # <<>>
          THEN IF Lower(flag.s) = LATEST
                 THEN (IF latest = NoneV THEN configured ELSE latest)
                 ELSE flag
          ELSE configured
      versioned == Put(args, KEY_GRADLE_VERSION, gradle_version)
      cli == IF versioned[KEY_PROJECT_VERSION] # NoneV
               THEN Put(versioned, KEY_VERSION, versioned[KEY_PROJECT_VERSION])
               ELSE Remove(versioned, KEY_VERSION)
      template == GetArguments(HintDefaults(vars_), md)
  IN  IF ~checked.ok
        THEN [generated |-> FALSE, code |-> 1, errors |-> checked.errors, args |-> args,
              cli |-> args, template |-> template, context |-> EmptyDict]
        ELSE [generated |-> TRUE, code |-> 0, errors |-> <<>>, args |-> args,
              cli |-> cli, template |-> template,
              context |-> BuildContext(cfg, env, cli, pairs, template, t)]

\* the build files a template may hold: a hint for group with a sort order,
\* a pattern of two alternatives, a help text and a default; a hint for
\* group whose pattern is malformed; each of the two followed by a hint for
\* a with a pattern and an empty help text; a plain placeholder
HINT_GROUP ==
  <<"{","{"," ","@","@","1","|","(","x","|","y","z",")","|","h","=","x","@",
    "@","g","r","o","u","p"," ","}","}">>

HINT_MALFORMED ==
  <<"{","{"," ","@","@","(","[",")","|","h","@","@","g","r","o","u","p"," ",
    "}","}">>

HINT_A ==
  <<"{","{"," ","@","@","(","x",")","|"," ","@","@","a"," ","}","}">>

HintTemplates ==
  { HINT_GROUP, HINT_MALFORMED,
    HINT_GROUP \o <<"\n">> \o HINT_A,
    HINT_MALFORMED \o <<"\n">> \o HINT_A,
    <<"{","{"," ","g","r","o","u","p"," ","}","}">> }

\* the persisted configs: each section absent or holding some of the keys
DefaultsConfigs ==
  { EmptyDict,
    ("defaults" :> (KEY_GRADLE_VERSION :> StrV(<<"8",".","1","1">>))),
    ("defaults" :> (KEY_GROUP :> VAL_DEFAULTS)) }

CustomConfigs ==
  { EmptyDict,
    ("custom" :> (KEY_GRADLE_VERSION :> StrV(<<"8",".","9">>))) }

\* the environments
CommandEnvs ==
  { EmptyDict,
    (ENV_GRADLE_VERSION :> <<"7",".","6">>),
    (ENV_GROUP :> <<"q">>),
    (ENV_GRADLE_VERSION :> <<"7",".","6">>) @@ (ENV_GROUP :> <<"q">>) }

\* the named flags of a command line
CommandFlags ==
  { Update(Update(g, a), v) :
      g \in {EmptyDict, (KEY_GROUP :> StrV(<<"x">>)), (KEY_GROUP :> StrV(<<"q">>))},
      a \in {EmptyDict, (KEY_A :> StrV(<<"q">>))},
      v \in {EmptyDict, (KEY_GRADLE_VERSION :> StrV(<<"8",".","5">>)),
             (KEY_GRADLE_VERSION :> StrV(<<"L","a","t","e","s","t">>))} }

\* the values a helper is called with
HelperValues == { <<>>, <<"x">>, <<"x","q">>, <<"y","z","\n">>, <<"q">> }

InitCommand ==
  /\ config \in {Update(d, c) : d \in DefaultsConfigs, c \in CustomConfigs}
  /\ env_vars \in CommandEnvs
  /\ user_flags \in CommandFlags
  /\ variables \in {ParseFile(EmptyDict, SOURCE_FILE, content) : content \in HintTemplates}
  /\ hint_vars = EmptyDict
  /\ md_args = <<>>
  /\ config_pairs = <<>>
  /\ now = CHOOSE t \in Clock : t.year = 2026
  /\ phase = "input"
  /\ cli_args = EmptyDict
  /\ template_args = <<>>
  /\ context = EmptyDict
  /\ scanned = <<>>
  /\ document = <<>>
  /\ previous = <<>>
  /\ passes = 0
  /\ CacheIdle
  /\ procs = <<>>
  /\ CommandIdle

\* get_config_default(config, key, fallback)
GetConfigDefaultAction(key, fallback) ==
  /\ called.fn = "none" /\ prompt.pc = "idle"
  /\ called' = [NoHelperCall EXCEPT !.fn = "get_config_default", !.name = key,
                                    !.value = fallback,
                                    !.ret = GetConfigDefault(config, key, fallback)]
  /\ UNCHANGED <<ctxVars, cacheVars, procs, parserVars, prompt>>

\* variables[name].validate(value)
ValidateAction(name, value) ==
  /\ called.fn = "none" /\ prompt.pc = "idle"
  /\ \E out \in {Validate(variables[name], value)} :
       called' = [NoHelperCall EXCEPT !.fn = "validate", !.name = name,
                                      !.value = StrV(value), !.ok = out.ok,
                                      !.message = StrV(out.message)]
  /\ UNCHANGED <<ctxVars, cacheVars, procs, parserVars, prompt>>

\* validate_value_against_hint(value, variables[name])
ValidateValueAgainstHintAction(name, value) ==
  /\ called.fn = "none" /\ prompt.pc = "idle"
  /\ \E out \in {ValidateValueAgainstHint(value, variables[name])} :
       called' = [NoHelperCall EXCEPT !.fn = "validate_value_against_hint",
                                      !.name = name, !.value = value, !.ok = out.ok,
                                      !.message = out.message, !.warned = out.warned]
  /\ UNCHANGED <<ctxVars, cacheVars, procs, parserVars, prompt>>

\* validate_cli_args_against_template(vars(args), metadata.get_template_hints())
ValidateCliArgsAction ==
  /\ called.fn = "none" /\ prompt.pc = "idle"
  /\ \E args \in {InitNamespace(variables, md_args, user_flags)} :
       \E out \in {ValidateCliArgsAgainstTemplate(args, GetSortedVariables(variables))} :
         called' = [NoHelperCall EXCEPT !.fn = "validate_cli_args_against_template",
                                        !.args = args, !.ok = out.ok,
                                        !.errors = out.errors]
  /\ UNCHANGED <<ctxVars, cacheVars, procs, parserVars, prompt>>

\* handle_init_command(args)
HandleInitCommandAction(latest) ==
  /\ called.fn = "none" /\ prompt.pc = "idle"
  /\ phase = "input"
  /\ \E out \in {HandleInitCommand(config, env_vars, variables, md_args, user_flags,
                                   config_pairs, now, latest)} :
       /\ called' = [NoHelperCall EXCEPT !.fn = "handle_init_command",
                                         !.args = out.args, !.ok = out.generated,
                                         !.errors = out.errors, !.ret = IntV(out.code)]
       /\ cli_args' = out.cli
       /\ template_args' = out.template
       /\ context' = out.context
       /\ phase' = IF out.generated THEN "built" ELSE phase
  /\ UNCHANGED <<config, env_vars, hint_vars, md_args, user_flags, config_pairs, now>>
  /\ UNCHANGED <<cacheVars, procs, parserVars, prompt>>

NextCommand ==
  \/ \E key \in {KEY_GRADLE_VERSION, KEY_GROUP, KEY_A} :
       \E fallback \in {NoneV, StrV(DEFAULT_GRADLE_VERSION)} :
         GetConfigDefaultAction(key, fallback)
  \/ \E name \in DOMAIN variables : \E value \in HelperValues : ValidateAction(name, value)
  \/ \E name \in DOMAIN variables :
       \E value \in {StrV(v) : v \in HelperValues} \cup {IntV(8)} :
         ValidateValueAgainstHintAction(name, value)
  \/ ValidateCliArgsAction
  \/ \E latest \in {NoneV, StrV(<<"9",".","0">>)} : HandleInitCommandAction(latest)

SpecCommand == InitCommand /\ [][NextCommand]_vars

(***************************************************************************)
(* prompt_with_validation, one round of its loop at a time.                *)
(***************************************************************************)
MaxRounds == 3

\* no hint is passed
NoHint == <<>>

\* the mutant of the round that returns what the validator rejected
PromptRoundUnchecked(p, raw) ==
  LET user_input == Strip(raw)
  IN  IF user_input = <<>>
        THEN IF p.allow_empty /\ p.default # NoneV
               THEN [p EXCEPT !.pc = "returned", !.input = raw, !.rounds = @ + 1,
                              !.ret = PyStr(p.default)]
             ELSE IF ~p.allow_empty
               THEN [p EXCEPT !.input = raw, !.rounds = @ + 1]
             ELSE [p EXCEPT !.pc = "returned", !.input = raw, !.rounds = @ + 1,
                            !.ret = user_input]
        ELSE [p EXCEPT !.pc = "returned", !.input = raw, !.rounds = @ + 1,
                       !.ret = user_input]

\* one round of the loop: input() returns raw
PromptRound(p, raw) ==
  LET user_input == Strip(raw)
  IN  IF user_input = <<>>
        THEN IF p.allow_empty /\ p.default # NoneV
               THEN [p EXCEPT !.pc = "returned", !.input = raw, !.rounds = @ + 1,
                              !.ret = PyStr(p.default)]
             ELSE IF ~p.allow_empty
               THEN [p EXCEPT !.input = raw, !.rounds = @ + 1]
             ELSE [p EXCEPT !.pc = "returned", !.input = raw, !.rounds = @ + 1,
                            !.ret = user_input]
      ELSE IF p.hint # NoHint /\ ~ValidateValueAgainstHint(StrV(user_input), p.hint).ok
        THEN [p EXCEPT !.input = raw, !.rounds = @ + 1]
      ELSE [p EXCEPT !.pc = "returned", !.input = raw, !.rounds = @ + 1,
                     !.ret = user_input]

\* what the user may type at a prompt
RawInputs == { <<>>, <<" ">>, <<" ","x"," ">>, <<"q">>, <<"x","q">> }

InitPrompt ==
  /\ variables \in {ParseFile(EmptyDict, SOURCE_FILE, content) : content \in HintTemplates}
  /\ scanned = <<>>
  /\ document = <<>>
  /\ previous = <<>>
  /\ passes = 0
  /\ ContextIdle
  /\ CacheIdle
  /\ procs = <<>>
  /\ CommandIdle

\* prompt_with_validation(prompt_text, default, hint, allow_empty) is called
StartPrompt(default, hint, allow_empty) ==
  /\ prompt.pc = "idle" /\ called.fn = "none"
  /\ prompt' = [NoPrompt EXCEPT !.pc = "prompting", !.default = default,
                                !.hint = hint, !.allow_empty = allow_empty]
  /\ UNCHANGED <<ctxVars, cacheVars, procs, parserVars, called>>

\* the user answers the prompt
PromptInput(raw) ==
  /\ prompt.pc = "prompting" /\ prompt.rounds < MaxRounds
  /\ prompt' = PromptRound(prompt, raw)
  /\ UNCHANGED <<ctxVars, cacheVars, procs, parserVars, called>>

NextPrompt ==
  \/ \E default \in {NoneV, StrV(<<"q">>), IntV(8)} :
       \E hint \in {variables[n] : n \in DOMAIN variables} \cup {NoHint} :
         \E allow_empty \in BOOLEAN : StartPrompt(default, hint, allow_empty)
  \/ \E raw \in RawInputs : PromptInput(raw)

SpecPrompt == InitPrompt /\ [][NextPrompt]_vars

(***************************************************************************)
(* What the helpers and the init command guarantee.                        *)
(***************************************************************************)
\* the descriptor a single-value validation was called with has a pattern
\* that does not compile
CalledWithMalformedPattern ==
  /\ called.fn \in {"validate", "validate_value_against_hint"}
  /\ variables[called.name].regex_pattern # NoneV
  /\ ~ReCompiles(variables[called.name].regex_pattern.s)

\* C22: whichever entry point validates a value against a descriptor whose
\* pattern does not compile, TemplateVariable.validate or
\* validate_value_against_hint, the answer is "ok": a malformed pattern never
\* rejects a value.
MalformedPatternNeverRejects == CalledWithMalformedPattern => called.ok

\* sub occurs in s
Occurs(sub, s) ==
  \E i \in 0..(Len(s) - Len(sub)) : SubSeq(s, i + 1, i + Len(sub)) = sub

\* the hints whose supplied value is not None and does not match ^pattern$
FailingHints(args, hints) ==
  {i \in DOMAIN hints :
     /\ Get(args, hints[i].name) # NoneV
     /\ hints[i].regex_pattern # NoneV
     /\ ReCompiles(hints[i].regex_pattern.s)
     /\ ~ReMatch(hints[i].regex_pattern.s, PyStr(Get(args, hints[i].name)))}

ConfigDefaultOrder ==
  called.fn = "get_config_default" =>
    /\ called.ret =
         IF called.name \in DOMAIN SectionOf(config, "defaults")
           THEN config["defaults"][called.name]
         ELSE IF called.name \in DOMAIN SectionOf(config, "custom")
           THEN config["custom"][called.name]
         ELSE called.value
    /\ config = EmptyDict => called.ret = called.value

\* a key that both sections hold with different values was looked up, and
\* the 'defaults' value came back
ConfigDefaultOrderWitness ==
  /\ called.fn = "get_config_default"
  /\ called.name \in DOMAIN SectionOf(config, "defaults")
  /\ called.name \in DOMAIN SectionOf(config, "custom")
  /\ config["defaults"][called.name] # config["custom"][called.name]
  /\ called.ret = config["defaults"][called.name]

\* C23: when a non-interactive init run passes validation and goes on to
\* generation, every value of the final context for a variable whose
\* descriptor has a well-formed pattern matches ^pattern$, whichever source
\* it came from.
ValidatorChecksFinalValues ==
  (called.fn = "handle_init_command" /\ called.ok) =>
    \A n \in DOMAIN variables :
      (/\ variables[n].regex_pattern # NoneV
       /\ ReCompiles(variables[n].regex_pattern.s)
       /\ n \in DOMAIN context
       /\ context[n] # NoneV)
      => ReMatch(variables[n].regex_pattern.s, PyStr(context[n]))

\* C28: in an init run without --gradle-version, the value of
\* GRADLE_INIT_GRADLE_VERSION is the gradle_version of the final context,
\* ahead of the persisted config and of the built-in default.
EnvGradleVersionWins ==
  (/\ called.fn = "handle_init_command" /\ called.ok
   /\ KEY_GRADLE_VERSION \notin DOMAIN user_flags
   /\ ENV_GRADLE_VERSION \in DOMAIN env_vars)
  => /\ KEY_GRADLE_VERSION \in DOMAIN context
     /\ context[KEY_GRADLE_VERSION] = ParseEnvValue(env_vars[ENV_GRADLE_VERSION])

\* the validator accepts the stripped input of the last round
LastInputAccepted ==
  ValidateValueAgainstHint(StrV(Strip(prompt.input)), prompt.hint).ok

\* C25, as stated: with a hint, the loop returns only a non-empty input the
\* validator accepts or, on empty input, the default; a rejected input leads
\* to another prompt; an accepted value or an accepted default ends the loop.
PromptReturnsAcceptedOrDefault ==
  (prompt.hint # NoHint /\ prompt.rounds > 0) =>
    /\ prompt.pc = "returned" =>
         \/ /\ Strip(prompt.input) # <<>>
            /\ LastInputAccepted
            /\ prompt.ret = Strip(prompt.input)
         \/ /\ Strip(prompt.input) = <<>>
            /\ prompt.default # NoneV
            /\ prompt.ret = PyStr(prompt.default)
    /\ (Strip(prompt.input) # <<>> /\ ~LastInputAccepted) => prompt.pc = "prompting"
    /\ (Strip(prompt.input) # <<>> /\ LastInputAccepted) => prompt.pc = "returned"
    /\ (Strip(prompt.input) = <<>> /\ prompt.default # NoneV) => prompt.pc = "returned"

\* C25, amended: with a hint, the loop returns only a non-empty input the
\* validator accepts or, on empty input while empty input is allowed, the
\* default as a string, which is the empty string when there is no default;
\* a rejected input, and an empty input while empty input is not allowed,
\* lead to another prompt; every other input ends the loop.
PromptReturnsAcceptedOrEmptyAnswer ==
  (prompt.hint # NoHint /\ prompt.rounds > 0) =>
    /\ prompt.pc = "returned" =>
         \/ /\ Strip(prompt.input) # <<>>
            /\ LastInputAccepted
            /\ prompt.ret = Strip(prompt.input)
         \/ /\ Strip(prompt.input) = <<>>
            /\ prompt.allow_empty
            /\ prompt.ret = IF prompt.default # NoneV THEN PyStr(prompt.default) ELSE <<>>
    /\ (Strip(prompt.input) # <<>> /\ ~LastInputAccepted) => prompt.pc = "prompting"
    /\ (Strip(prompt.input) = <<>> /\ ~prompt.allow_empty) => prompt.pc = "prompting"
    /\ (Strip(prompt.input) # <<>> /\ LastInputAccepted) => prompt.pc = "returned"
    /\ (Strip(prompt.input) = <<>> /\ prompt.allow_empty) => prompt.pc = "returned"

\* a prompt with a hint that has a well-formed pattern returned an accepted
\* input in a later round, after a round that asked again
PromptReturnsAcceptedOrEmptyAnswerWitness ==
  /\ prompt.pc = "returned"
  /\ prompt.hint # NoHint
  /\ prompt.hint.regex_pattern = StrV(<<"x">>)
  /\ prompt.rounds >= 2
  /\ prompt.ret = <<"x">>

=============================================================================
